---------------------------- MODULE Spec2Model ----------------------------
(***************************************************************************)
(* Model of the competitive-intelligence classifier of src/utils           *)
(* (competitive.ts, concatenated into src/src/utils/graphql.ts) and of the *)
(* address lookup of src/src/utils/contracts.ts.                           *)
(*                                                                         *)
(* JavaScript values are modelled as follows.                              *)
(*   - A string is a sequence of one-character strings, wrapped in a       *)
(*     record with its kind, so that undefined and null are values of the  *)
(*     same shape: [kind |-> "string", chars |-> <<"4", "2">>].            *)
(*   - A bigint is a sign and a magnitude, the magnitude a sequence of     *)
(*     decimal digits without leading zeros (most significant first), so   *)
(*     that no value is cut to a machine width.                            *)
(*   - An address is an identity and a flag telling whether the text holds *)
(*     upper-case hex letters; toLowerCase clears the flag.                *)
(***************************************************************************)
EXTENDS Integers, Sequences, FiniteSets, TLC

VARIABLES contractAddresses, value, defaultValue, converted, intel, analysis, pc

\* the state of the calls that work on all agents: the categories agents and
\* resources of contracts.json, the ambient agent id, what the chain and the
\* indexer answer to each fetch, and the results of the three calls
VARIABLES agentAddresses, resourceAddresses, currentAgentId, network,
          competitiveIntelligence, strategicAnalysis, ranking

batchVars == <<agentAddresses, resourceAddresses, currentAgentId, network,
               competitiveIntelligence, strategicAnalysis, ranking>>

\* the state of an intercepted blockchain action: the ENABLE_DASHBOARD setting,
\* the extension that wrapped the handler, the call in progress, what the
\* original handler did, the calls of the dashboard output and of the
\* original handler in the order they were made, the requests posted to the
\* dashboard, what the caller got back, Date.now() and the calls made so far
VARIABLES dashboardEnabled, extension, actionCall, handlerOutcome, events, posted,
          callerResult, clock, invocations

dashVars == <<dashboardEnabled, extension, actionCall, handlerOutcome, events, posted,
              callerResult, clock, invocations>>

\* the state of the prompt schedule of autonomous mode: the time in ms since
\* subscribe was called, the prompts sent with the time of each, the variable
\* lastUpdateTime, the time the pending timer is due, the callbacks of the
\* interval run so far
VARIABLES wallClock, sent, lastUpdateTime, timerDue, ticks

promptVars == <<wallClock, sent, lastUpdateTime, timerDue, ticks>>

\* the state of utils/starknet.ts besides currentAgentId: the configurations
\* held by StarknetConfigStore, the variable STARKNET_RPC_URL, the cached
\* _starknetChain, and what the last call on the chain was made with
VARIABLES configs, rpcUrlEnv, starknetChainCache, lastChainCall

chainVars == <<configs, rpcUrlEnv, starknetChainCache, lastChainCall>>

\* the state of the goal actions: the goal memory of the context (goal,
\* history, lastUpdated), the call handled last with what it returned, the
\* calls handled and those of them that succeeded
VARIABLES agentMemory, goalCall, goalResult, goalCalls, succeeded

goalVars == <<agentMemory, goalCall, goalResult, goalCalls, succeeded>>

\* the state of the faucet actions: the call handled last with what the
\* chain and the clock gave it, what it returned, the writes sent to the
\* chain and the calls handled
VARIABLES faucetCall, faucetResult, chainWrites, faucetCalls

faucetVars == <<faucetCall, faucetResult, chainWrites, faucetCalls>>

\* the state outside the classifier and the calls on all agents
extVars == <<dashVars, promptVars, chainVars, goalVars, faucetVars>>

vars == <<contractAddresses, value, defaultValue, converted, intel, analysis, pc,
          agentAddresses, resourceAddresses, currentAgentId, network,
          competitiveIntelligence, strategicAnalysis, ranking, extVars>>

classifierVars == <<contractAddresses, value, defaultValue, converted, intel, analysis>>

---------------------------------------------------------------------------
(* Bounds of the model.                                                    *)

\* longest generated string handed to safeBigIntConversion
MaxStrLen == 3

\* most entries of a generated resourceBalances mapping
MaxEntries == 2

\* longest generated liquidity or stake position list, every order
MaxPositions == 3

\* longest position list where liquidity and stake lists vary together
MaxPathPositions == 2

---------------------------------------------------------------------------
(* Strings.                                                                *)

Str(s) == [kind |-> "string", chars |-> s]

JsUndefined == [kind |-> "undefined", chars |-> <<>>]

JsNull == [kind |-> "null", chars |-> <<>>]

ErrorStr == Str(<<"E", "r", "r", "o", "r">>)

\* !value for a string, undefined or null: the empty string is falsy too
Falsy(v) == v.kind # "string" \/ v.chars = <<>>

DecimalDigits == {"0", "1", "2", "3", "4", "5", "6", "7", "8", "9"}

DigitVal(c) ==
    CASE c = "0" -> 0 [] c = "1" -> 1 [] c = "2" -> 2 [] c = "3" -> 3
      [] c = "4" -> 4 [] c = "5" -> 5 [] c = "6" -> 6 [] c = "7" -> 7
      [] c = "8" -> 8 [] c = "9" -> 9 [] c = "a" -> 10 [] c = "b" -> 11
      [] c = "c" -> 12 [] c = "d" -> 13 [] c = "e" -> 14 [] c = "f" -> 15
      [] OTHER -> 99

---------------------------------------------------------------------------
(* Arbitrary-precision integers.                                           *)

Big(n, m) == [neg |-> n, mag |-> m]

BigZero == Big(FALSE, <<>>)

RECURSIVE StripZeros(_)
StripZeros(ds) ==
    IF ds # <<>> /\ Head(ds) = 0 THEN StripZeros(Tail(ds)) ELSE ds

\* magnitude a > magnitude b, both without leading zeros
RECURSIVE MagGT(_, _)
MagGT(a, b) ==
    IF Len(a) # Len(b) THEN Len(a) > Len(b)
    ELSE IF a = <<>> THEN FALSE
    ELSE IF Head(a) # Head(b) THEN Head(a) > Head(b)
    ELSE MagGT(Tail(a), Tail(b))

\* a > b on bigints
BigGT(a, b) ==
    IF a.neg /\ ~b.neg THEN FALSE
    ELSE IF ~a.neg /\ b.neg THEN TRUE
    ELSE IF a.neg THEN MagGT(b.mag, a.mag)
    ELSE MagGT(a.mag, b.mag)

BigLT(a, b) == BigGT(b, a)

RECURSIVE NatToDigits(_)
NatToDigits(n) ==
    IF n = 0 THEN <<>> ELSE Append(NatToDigits(n \div 10), n % 10)

---------------------------------------------------------------------------
(* BigInt(string): StringToBigInt of ECMAScript.  White space is trimmed,  *)
(* the empty text is 0n, a decimal literal may carry one sign, a literal   *)
(* with a radix prefix may not; anything else is a SyntaxError.            *)

RECURSIVE TrimLeft(_)
TrimLeft(s) ==
    IF s # <<>> /\ Head(s) = " " THEN TrimLeft(Tail(s)) ELSE s

RECURSIVE TrimRight(_)
TrimRight(s) ==
    IF s # <<>> /\ s[Len(s)] = " " THEN TrimRight(SubSeq(s, 1, Len(s) - 1)) ELSE s

Trim(s) == TrimRight(TrimLeft(s))

AllDigits(s, radix) == \A i \in 1..Len(s) : DigitVal(s[i]) < radix

Radix(c) ==
    CASE c \in {"x", "X"} -> 16
      [] c \in {"o", "O"} -> 8
      [] c \in {"b", "B"} -> 2
      [] OTHER -> 0

\* the value of the digits of a prefixed literal; the generated literals are
\* short, so the value is computed as a number and then written in decimal
RECURSIVE RadixValue(_, _)
RadixValue(s, radix) ==
    IF s = <<>> THEN 0
    ELSE RadixValue(SubSeq(s, 1, Len(s) - 1), radix) * radix + DigitVal(s[Len(s)])

DecimalMag(s) == StripZeros([i \in 1..Len(s) |-> DigitVal(s[i])])

Parsed(v) == [ok |-> TRUE, val |-> v]

SyntaxError == [ok |-> FALSE, val |-> BigZero]

StringToBigInt(chars) ==
    LET t == Trim(chars) IN
    IF t = <<>> THEN Parsed(BigZero)
    ELSE IF AllDigits(t, 10) THEN Parsed(Big(FALSE, DecimalMag(t)))
    ELSE IF Head(t) \in {"+", "-"} /\ Len(t) > 1 /\ AllDigits(Tail(t), 10)
        THEN LET m == DecimalMag(Tail(t)) IN
             Parsed(Big(Head(t) = "-" /\ m # <<>>, m))
    ELSE IF Len(t) > 2 /\ Head(t) = "0" /\ Radix(t[2]) # 0
                 /\ AllDigits(SubSeq(t, 3, Len(t)), Radix(t[2]))
        THEN Parsed(Big(FALSE, NatToDigits(RadixValue(SubSeq(t, 3, Len(t)), Radix(t[2])))))
    ELSE SyntaxError

---------------------------------------------------------------------------
(* safeBigIntConversion.  The result records whether an error left the     *)
(* function; the try/catch of the code catches the SyntaxError of BigInt.  *)

Returned(v) == [threw |-> FALSE, val |-> v]

\* a mutant of safeBigIntConversion: "0" taken for a missing value
safeBigIntConversion_ZeroFalsy(v, d) ==
    IF Falsy(v) \/ v.chars = <<"0">> THEN Returned(d)
    ELSE LET r == StringToBigInt(v.chars) IN
         IF r.ok THEN Returned(r.val) ELSE Returned(d)

safeBigIntConversion(v, d) ==
    IF Falsy(v) THEN Returned(d)
    ELSE LET r == StringToBigInt(v.chars) IN
         IF r.ok THEN Returned(r.val) ELSE Returned(d)

\* the call with the default omitted: defaultValue = 0n
safeBigInt(v) == safeBigIntConversion(v, BigZero).val

---------------------------------------------------------------------------
(* contracts.json and isAddressOfType.  contracts.json is deployment data; *)
(* the model holds it in the variable contractAddresses.  The keys of the  *)
(* lpPairs category that the context text of run-agents.ts reads are       *)
(* wdCarbon .. wdHelium3; the classifier looks pairs up under the resource *)
(* names.  Both keyings are modelled: a file with the wd keys only, and a  *)
(* file that also names each pair by the resources traded on it.           *)

Address(n, u) == [id |-> n, upper |-> u]

\* a mutant of toLowerCase: the text is left as it is
toLowerCase_Identity(a) == a

toLowerCase(a) == [a EXCEPT !.upper = FALSE]

\* the identities of the configured pairs and reactors; 0 is the address of
\* no configured contract
PairIds == 1..6

ReactorIds == 11..17

WdKeyedPairs ==
    ("wdCarbon" :> Address(1, TRUE)) @@ ("wdGraphite" :> Address(2, TRUE))
    @@ ("wdNeodymium" :> Address(3, TRUE)) @@ ("wdDysprosium" :> Address(4, TRUE))
    @@ ("grapheneYttrium" :> Address(5, TRUE)) @@ ("wdHelium3" :> Address(6, TRUE))

ResourceKeyedPairs ==
    WdKeyedPairs
    @@ ("carbon" :> Address(1, TRUE)) @@ ("graphite" :> Address(2, TRUE))
    @@ ("neodymium" :> Address(3, TRUE)) @@ ("dysprosium" :> Address(4, TRUE))
    @@ ("graphene" :> Address(5, TRUE)) @@ ("yttrium" :> Address(5, TRUE))
    @@ ("helium3" :> Address(6, TRUE))

Reactors ==
    ("grp" :> Address(11, TRUE)) @@ ("gph" :> Address(12, TRUE))
    @@ ("dy" :> Address(13, TRUE)) @@ ("y" :> Address(14, TRUE))
    @@ ("he3" :> Address(15, TRUE)) @@ ("wdHe3" :> Address(16, TRUE))
    @@ ("he3Stake" :> Address(17, TRUE))

ContractFiles ==
    { [lpPairs |-> WdKeyedPairs, reactors |-> Reactors],
      [lpPairs |-> ResourceKeyedPairs, reactors |-> Reactors] }

\* isAddressOfType(address, category, tokenType) with a token type given
isAddressOfType(address, category, tokenType) ==
    LET categoryAddresses == contractAddresses[category]
        normalizedAddress == toLowerCase(address)
    IN  /\ tokenType \in DOMAIN categoryAddresses
        /\ normalizedAddress = toLowerCase(categoryAddresses[tokenType])

---------------------------------------------------------------------------
(* The inputs of the classifier.                                           *)

\* Record<string, string>, in insertion order; null stands for a mapping
\* that is missing
Balances(es) == [kind |-> "object", entries |-> es]

NullBalances == [kind |-> "null", entries |-> <<>>]

\* one entry of the mapping
Entry(k, v) == [key |-> k, value |-> v]

\* the value of liquidityPositions?.liquidityPosition and of
\* stakePositions?.userStake: an array, undefined, or an object that is no
\* array
Positions(as) == [kind |-> "array", items |-> as]

NoPositions == [kind |-> "undefined", items |-> <<>>]

NotIterable == [kind |-> "object", items |-> <<>>]

\* x || []
OrEmpty(p) == IF p.kind = "undefined" THEN Positions(<<>>) ELSE p

\* resourceBalances[key]
Lookup(rb, key) ==
    IF \E i \in 1..Len(rb.entries) : rb.entries[i].key = key
    THEN rb.entries[CHOOSE i \in 1..Len(rb.entries) : rb.entries[i].key = key].value
    ELSE JsUndefined

AnalysisError == "Analysis Error"

---------------------------------------------------------------------------
(* analyzeResourceFocus                                                    *)

\* the non-error entries, converted
RECURSIVE ConvertBalances(_)
ConvertBalances(es) ==
    IF es = <<>> THEN <<>>
    ELSE LET rest == ConvertBalances(Tail(es)) IN
         IF Head(es).value # ErrorStr
         THEN <<[key |-> Head(es).key, bal |-> safeBigInt(Head(es).value)]>> \o rest
         ELSE rest

\* a mutant of InsertDesc: ascending order
RECURSIVE InsertDesc_Ascending(_, _)
InsertDesc_Ascending(x, sorted) ==
    IF sorted = <<>> THEN <<x>>
    ELSE IF BigLT(x.bal, Head(sorted).bal) THEN <<x>> \o sorted
    ELSE <<Head(sorted)>> \o InsertDesc_Ascending(x, Tail(sorted))

\* Array.prototype.sort is stable: x goes before the first entry that is
\* strictly smaller, after every entry that is equal
RECURSIVE InsertDesc(_, _)
InsertDesc(x, sorted) ==
    IF sorted = <<>> THEN <<x>>
    ELSE IF BigGT(x.bal, Head(sorted).bal) THEN <<x>> \o sorted
    ELSE <<Head(sorted)>> \o InsertDesc(x, Tail(sorted))

RECURSIVE SortDesc(_)
SortDesc(bs) ==
    IF bs = <<>> THEN <<>>
    ELSE InsertDesc(bs[Len(bs)], SortDesc(SubSeq(bs, 1, Len(bs) - 1)))

\* a mutant of Capitalize: the name is left in lower case
Capitalize_Identity(name) == name

\* name.charAt(0).toUpperCase() + name.slice(1)
Capitalize(name) ==
    CASE name = "graphene" -> "Graphene"
      [] name = "yttrium" -> "Yttrium"
      [] name = "carbon" -> "Carbon"
      [] name = "neodymium" -> "Neodymium"
      [] OTHER -> name

\* `${cap} Path Focus`
PathFocusLabel(cap) ==
    CASE cap = "Graphene" -> "Graphene Path Focus"
      [] cap = "Yttrium" -> "Yttrium Path Focus"
      [] cap = "graphene" -> "graphene Path Focus"
      [] cap = "yttrium" -> "yttrium Path Focus"
      [] OTHER -> "<other> Path Focus"

\* `${cap} Stockpiling`
StockpilingLabel(cap) ==
    CASE cap = "Carbon" -> "Carbon Stockpiling"
      [] cap = "Neodymium" -> "Neodymium Stockpiling"
      [] cap = "carbon" -> "carbon Stockpiling"
      [] cap = "neodymium" -> "neodymium Stockpiling"
      [] OTHER -> "<other> Stockpiling"

analyzeResourceFocus(resourceBalances) ==
    IF resourceBalances.kind # "object" THEN AnalysisError
    ELSE
    LET balances == ConvertBalances(resourceBalances.entries)
        sortedResources == SortDesc(balances)
    IN  IF Len(sortedResources) = 0 THEN "Unknown"
        ELSE LET topResource == sortedResources[1].key IN
             IF topResource = "helium3" /\ BigGT(sortedResources[1].bal, BigZero)
                 THEN "He3 Accumulation"
             ELSE IF topResource \in {"graphene", "yttrium"}
                 THEN PathFocusLabel(Capitalize(topResource))
             ELSE IF topResource \in {"carbon", "neodymium"}
                 THEN StockpilingLabel(Capitalize(topResource))
             ELSE "Balanced Resource Approach"

---------------------------------------------------------------------------
(* analyzePathPreference                                                   *)

graphenePathResources == {"carbon", "graphite", "graphene"}

yttriumPathResources == {"neodymium", "dysprosium", "yttrium"}

graphenePathPairs == {"carbon", "graphite", "graphene"}

yttriumPathPairs == {"neodymium", "dysprosium", "yttrium"}

graphenePathReactors == {"grp", "gph"}

yttriumPathReactors == {"dy", "y"}

\* the loop over Object.entries(resourceBalances), for one path
RECURSIVE BalanceScore(_, _)
BalanceScore(es, pathResources) ==
    IF es = <<>> THEN 0
    ELSE LET rest == BalanceScore(Tail(es), pathResources) IN
         IF Head(es).value = ErrorStr THEN rest
         ELSE IF safeBigInt(Head(es).value) = BigZero THEN rest
         ELSE IF Head(es).key \in pathResources THEN rest + 1
         ELSE rest

\* a mutant of LiquidityScore: a position weighs as much as a balance
RECURSIVE LiquidityScore_Weight1(_, _)
LiquidityScore_Weight1(items, pathPairs) ==
    IF items = <<>> THEN 0
    ELSE LiquidityScore_Weight1(Tail(items), pathPairs)
         + (IF \E t \in pathPairs : isAddressOfType(Head(items).pairAddress, "lpPairs", t)
            THEN 1 ELSE 0)

\* the loop over the liquidity positions, for one path
RECURSIVE LiquidityScore(_, _)
LiquidityScore(items, pathPairs) ==
    IF items = <<>> THEN 0
    ELSE LiquidityScore(Tail(items), pathPairs)
         + (IF \E t \in pathPairs : isAddressOfType(Head(items).pairAddress, "lpPairs", t)
            THEN 2 ELSE 0)

\* the loop over the stake positions, for one path
RECURSIVE StakeScore(_, _)
StakeScore(items, pathReactors) ==
    IF items = <<>> THEN 0
    ELSE StakeScore(Tail(items), pathReactors)
         + (IF \E t \in pathReactors : isAddressOfType(Head(items).reactorAddress, "reactors", t)
            THEN 3 ELSE 0)

graphenePathScore(rb, lp, sp) ==
    BalanceScore(rb.entries, graphenePathResources)
    + LiquidityScore(OrEmpty(lp).items, graphenePathPairs)
    + StakeScore(OrEmpty(sp).items, graphenePathReactors)

yttriumPathScore(rb, lp, sp) ==
    BalanceScore(rb.entries, yttriumPathResources)
    + LiquidityScore(OrEmpty(lp).items, yttriumPathPairs)
    + StakeScore(OrEmpty(sp).items, yttriumPathReactors)

\* a mutant of PathPreferenceLabel: >= where the code compares with >
PathPreferenceLabel_NotStrict(g, y) ==
    IF g >= y * 2 THEN "Strong Graphene Path Preference"
    ELSE IF g > y THEN "Moderate Graphene Path Preference"
    ELSE IF y >= g * 2 THEN "Strong Yttrium Path Preference"
    ELSE IF y > g THEN "Moderate Yttrium Path Preference"
    ELSE "Balanced Path Approach"

\* "Determine path preference"
PathPreferenceLabel(g, y) ==
    IF g > y * 2 THEN "Strong Graphene Path Preference"
    ELSE IF g > y THEN "Moderate Graphene Path Preference"
    ELSE IF y > g * 2 THEN "Strong Yttrium Path Preference"
    ELSE IF y > g THEN "Moderate Yttrium Path Preference"
    ELSE "Balanced Path Approach"

\* Object.entries of a missing mapping and for..of over a value that is no
\* array throw a TypeError, which the catch turns into the error label
analyzePathPreference(resourceBalances, liquidityPositions, stakePositions) ==
    IF resourceBalances.kind # "object" THEN AnalysisError
    ELSE IF OrEmpty(liquidityPositions).kind # "array" THEN AnalysisError
    ELSE IF OrEmpty(stakePositions).kind # "array" THEN AnalysisError
    ELSE PathPreferenceLabel(
             graphenePathScore(resourceBalances, liquidityPositions, stakePositions),
             yttriumPathScore(resourceBalances, liquidityPositions, stakePositions))

---------------------------------------------------------------------------
(* analyzeLiquidityStrategy                                                *)

\* the if / else if chain of the loop body
LiquidityTier(pairAddress) ==
    IF \/ isAddressOfType(pairAddress, "lpPairs", "carbon")
       \/ isAddressOfType(pairAddress, "lpPairs", "neodymium")
        THEN "base"
    ELSE IF \/ isAddressOfType(pairAddress, "lpPairs", "graphite")
            \/ isAddressOfType(pairAddress, "lpPairs", "dysprosium")
        THEN "intermediate"
    ELSE IF \/ isAddressOfType(pairAddress, "lpPairs", "graphene")
            \/ isAddressOfType(pairAddress, "lpPairs", "yttrium")
            \/ isAddressOfType(pairAddress, "lpPairs", "helium3")
        THEN "advanced"
    ELSE "none"

RECURSIVE CountLiquidity(_, _)
CountLiquidity(items, tier) ==
    IF items = <<>> THEN 0
    ELSE CountLiquidity(Tail(items), tier)
         + (IF LiquidityTier(Head(items).pairAddress) = tier THEN 1 ELSE 0)

\* a mutant of LiquidityStrategyLabel: the advanced tier wins a tie
LiquidityStrategyLabel_NotStrict(b, i, a) ==
    IF a >= i /\ a >= b THEN "Advanced Resource Liquidity Focus"
    ELSE IF i > b THEN "Intermediate Resource Liquidity Focus"
    ELSE IF b > 0 THEN "Base Resource Liquidity Focus"
    ELSE "Diversified Liquidity Strategy"

\* "Determine liquidity strategy"
LiquidityStrategyLabel(b, i, a) ==
    IF a > i /\ a > b THEN "Advanced Resource Liquidity Focus"
    ELSE IF i > b THEN "Intermediate Resource Liquidity Focus"
    ELSE IF b > 0 THEN "Base Resource Liquidity Focus"
    ELSE "Diversified Liquidity Strategy"

\* an object that is no array has no length 0 and cannot be iterated
analyzeLiquidityStrategy(liquidityPositions) ==
    LET positions == OrEmpty(liquidityPositions) IN
    IF positions.kind # "array" THEN AnalysisError
    ELSE IF Len(positions.items) = 0 THEN "No Liquidity Positions"
    ELSE LiquidityStrategyLabel(CountLiquidity(positions.items, "base"),
                                CountLiquidity(positions.items, "intermediate"),
                                CountLiquidity(positions.items, "advanced"))

---------------------------------------------------------------------------
(* analyzeStakingStrategy                                                  *)

StakeTier(reactorAddress) ==
    IF \/ isAddressOfType(reactorAddress, "reactors", "grp")
       \/ isAddressOfType(reactorAddress, "reactors", "dy")
        THEN "base"
    ELSE IF \/ isAddressOfType(reactorAddress, "reactors", "gph")
            \/ isAddressOfType(reactorAddress, "reactors", "y")
        THEN "intermediate"
    ELSE IF /\ isAddressOfType(reactorAddress, "reactors", "he3")
            /\ ~isAddressOfType(reactorAddress, "reactors", "he3Stake")
        THEN "advanced"
    ELSE IF isAddressOfType(reactorAddress, "reactors", "he3Stake")
        THEN "he3Single"
    ELSE "none"

RECURSIVE CountStakes(_, _)
CountStakes(items, tier) ==
    IF items = <<>> THEN 0
    ELSE CountStakes(Tail(items), tier)
         + (IF StakeTier(Head(items).reactorAddress) = tier THEN 1 ELSE 0)

\* a mutant of StakingStrategyLabel: the single stake is looked at last
StakingStrategyLabel_SingleLast(b, i, a, h) ==
    IF a > i /\ a > b THEN "Advanced Resource Staking Focus"
    ELSE IF i > b THEN "Intermediate Resource Staking Focus"
    ELSE IF b > 0 THEN "Base Resource Staking Focus"
    ELSE IF h > 0 THEN "He3 Single Stake Focus"
    ELSE "Diversified Staking Strategy"

\* "Determine staking strategy"
StakingStrategyLabel(b, i, a, h) ==
    IF h > 0 THEN "He3 Single Stake Focus"
    ELSE IF a > i /\ a > b THEN "Advanced Resource Staking Focus"
    ELSE IF i > b THEN "Intermediate Resource Staking Focus"
    ELSE IF b > 0 THEN "Base Resource Staking Focus"
    ELSE "Diversified Staking Strategy"

analyzeStakingStrategy(stakePositions) ==
    LET stakes == OrEmpty(stakePositions) IN
    IF stakes.kind # "array" THEN AnalysisError
    ELSE IF Len(stakes.items) = 0 THEN "No Staking Positions"
    ELSE StakingStrategyLabel(CountStakes(stakes.items, "base"),
                              CountStakes(stakes.items, "intermediate"),
                              CountStakes(stakes.items, "advanced"),
                              CountStakes(stakes.items, "he3Single"))

---------------------------------------------------------------------------
(* determineOverallStrategy                                                *)

\* 800000000000000000000000n
endGameThreshold == Big(FALSE, <<8>> \o [i \in 1..23 |-> 0])

\* 500000000000000000000000n
lateGameThreshold == Big(FALSE, <<5>> \o [i \in 1..23 |-> 0])

\* a mutant of PassesThreshold: a balance equal to the threshold passes
PassesThreshold_Inclusive(balance, threshold) == ~BigLT(balance, threshold)

\* a mutant of PassesThreshold: the comparison is turned around
PassesThreshold_Inverted(balance, threshold) == BigLT(balance, threshold)

\* he3BalanceValue > threshold
PassesThreshold(balance, threshold) == BigGT(balance, threshold)

\* a mutant of HasResource: an entry counts whatever its balance
HasResource_Truthy(resourceBalances, name) == ~Falsy(Lookup(resourceBalances, name))

\* resourceBalances[name] && safeBigIntConversion(resourceBalances[name]) > 0n
HasResource(resourceBalances, name) ==
    /\ ~Falsy(Lookup(resourceBalances, name))
    /\ BigGT(safeBigInt(Lookup(resourceBalances, name)), BigZero)

\* reading a property of a missing mapping throws a TypeError; the length of
\* an object that is no array is undefined, and undefined > 0 is false
determineOverallStrategy(resourceBalances, liquidityPositions, stakePositions, he3Balance) ==
    LET he3BalanceValue == safeBigInt(he3Balance) IN
    IF PassesThreshold(he3BalanceValue, endGameThreshold)
        THEN "End Game - Final He3 Accumulation"
    ELSE IF PassesThreshold(he3BalanceValue, lateGameThreshold)
        THEN "Late Game - He3 Acceleration"
    ELSE IF resourceBalances.kind # "object" THEN AnalysisError
    ELSE
    LET hasGraphene == HasResource(resourceBalances, "graphene")
        hasYttrium == HasResource(resourceBalances, "yttrium")
        positions == OrEmpty(liquidityPositions)
    IN  IF hasGraphene /\ hasYttrium THEN "Mid Game - Dual Path Production"
        ELSE IF hasGraphene THEN "Mid Game - Graphene Path Focus"
        ELSE IF hasYttrium THEN "Mid Game - Yttrium Path Focus"
        ELSE IF positions.kind = "array" /\ Len(positions.items) > 0
            THEN "Early Game - Resource Conversion Setup"
        ELSE "Early Game - Resource Accumulation"

---------------------------------------------------------------------------
(* suggestCounterStrategies                                                *)

\* label.includes("Graphene"), over the labels of analyzePathPreference
IncludesGraphene(label) ==
    label \in {"Strong Graphene Path Preference", "Moderate Graphene Path Preference"}

\* label.includes("Yttrium")
IncludesYttrium(label) ==
    label \in {"Strong Yttrium Path Preference", "Moderate Yttrium Path Preference"}

\* label.includes("Base Resource"), over the labels of analyzeLiquidityStrategy
IncludesBaseResource(label) == label = "Base Resource Liquidity Focus"

\* label.includes("Advanced Resource")
IncludesAdvancedResource(label) == label = "Advanced Resource Liquidity Focus"

\* a mutant of suggestCounterStrategies: the liquidity suggestion is pushed
\* before the path suggestions
suggestCounterStrategies_LiquidityFirst(resourceBalances, liquidityPositions, stakePositions, he3Balance) ==
    LET he3BalanceValue == safeBigInt(he3Balance) IN
    IF BigGT(he3BalanceValue, endGameThreshold)
        THEN << "Accelerate He3 production to catch up",
                "Focus exclusively on He3 single staking" >>
    ELSE IF BigGT(he3BalanceValue, lateGameThreshold)
        THEN << "Optimize He3 production path",
                "Balance between He3 single staking and GPH-Y liquidity" >>
    ELSE
    LET pathPreference ==
            analyzePathPreference(resourceBalances, liquidityPositions, stakePositions)
        liquidityStrategy == analyzeLiquidityStrategy(liquidityPositions)
    IN  (IF IncludesBaseResource(liquidityStrategy)
             THEN << "Focus on intermediate and advanced resource liquidity" >>
         ELSE IF IncludesAdvancedResource(liquidityStrategy)
             THEN << "Ensure base resource supply chain is secure" >>
         ELSE << >>)
        \o
        (IF IncludesGraphene(pathPreference)
             THEN << "Focus on Yttrium path to avoid competition",
                     "Secure Neodymium and Dysprosium resources" >>
         ELSE IF IncludesYttrium(pathPreference)
             THEN << "Focus on Graphene path to avoid competition",
                     "Secure Carbon and Graphite resources" >>
         ELSE << "Specialize in one path for efficiency" >>)

suggestCounterStrategies(resourceBalances, liquidityPositions, stakePositions, he3Balance) ==
    LET he3BalanceValue == safeBigInt(he3Balance) IN
    IF BigGT(he3BalanceValue, endGameThreshold)
        THEN << "Accelerate He3 production to catch up",
                "Focus exclusively on He3 single staking" >>
    ELSE IF BigGT(he3BalanceValue, lateGameThreshold)
        THEN << "Optimize He3 production path",
                "Balance between He3 single staking and GPH-Y liquidity" >>
    ELSE
    LET pathPreference ==
            analyzePathPreference(resourceBalances, liquidityPositions, stakePositions)
        liquidityStrategy == analyzeLiquidityStrategy(liquidityPositions)
    IN  (IF IncludesGraphene(pathPreference)
             THEN << "Focus on Yttrium path to avoid competition",
                     "Secure Neodymium and Dysprosium resources" >>
         ELSE IF IncludesYttrium(pathPreference)
             THEN << "Focus on Graphene path to avoid competition",
                     "Secure Carbon and Graphite resources" >>
         ELSE << "Specialize in one path for efficiency" >>)
        \o
        (IF IncludesBaseResource(liquidityStrategy)
             THEN << "Focus on intermediate and advanced resource liquidity" >>
         ELSE IF IncludesAdvancedResource(liquidityStrategy)
             THEN << "Ensure base resource supply chain is secure" >>
         ELSE << >>)

---------------------------------------------------------------------------
(* analyzeCompetitorStrategies, for the record of one agent                *)

StrategicAnalysis(intelligence) ==
    [ he3Balance |-> intelligence.he3Balance,
      resourceFocus |-> analyzeResourceFocus(intelligence.resourceBalances),
      pathPreference |-> analyzePathPreference(intelligence.resourceBalances,
                                               intelligence.liquidityPositions,
                                               intelligence.stakePositions),
      liquidityStrategy |-> analyzeLiquidityStrategy(intelligence.liquidityPositions),
      stakingStrategy |-> analyzeStakingStrategy(intelligence.stakePositions),
      overallStrategy |-> determineOverallStrategy(intelligence.resourceBalances,
                                                   intelligence.liquidityPositions,
                                                   intelligence.stakePositions,
                                                   intelligence.he3Balance),
      counterStrategies |-> suggestCounterStrategies(intelligence.resourceBalances,
                                                     intelligence.liquidityPositions,
                                                     intelligence.stakePositions,
                                                     intelligence.he3Balance) ]

---------------------------------------------------------------------------
(* getCompetitiveIntelligence, analyzeCompetitorStrategies over all records *)
(* and rankAgentsByHe3.  Each fetch of the chain or of the indexer has an   *)
(* outcome of its own: the he3 balance fetched first and the helium3        *)
(* balance fetched in the loop over the resources are two fetches.  An      *)
(* outcome keeps the answer the fetch would have given had it not failed.   *)

DigitChar(d) ==
    CASE d = 0 -> "0" [] d = 1 -> "1" [] d = 2 -> "2" [] d = 3 -> "3" [] d = 4 -> "4"
      [] d = 5 -> "5" [] d = 6 -> "6" [] d = 7 -> "7" [] d = 8 -> "8" [] d = 9 -> "9"

\* balance.toString() of a bigint
BigToString(b) ==
    Str((IF b.neg THEN <<"-">> ELSE <<>>)
        \o (IF b.mag = <<>> THEN <<"0">> ELSE [i \in DOMAIN b.mag |-> DigitChar(b.mag[i])]))

Outcome(ok, val) == [ok |-> ok, val |-> val]

\* the fetches for one agent
Fetches(he3, balance, liquidity, stakes) ==
    [he3 |-> he3, balance |-> balance, liquidity |-> liquidity, stakes |-> stakes]

\* (error as Error).message || "Failed to get competitive intelligence"
ErrorMessage == Str(<<"f", "a", "i", "l", "e", "d">>)

AgentIntelligence(agentId, he3Balance, resourceBalances, liquidityPositions, stakePositions, error) ==
    [kind |-> "object", agentId |-> agentId, he3Balance |-> he3Balance,
     resourceBalances |-> resourceBalances, liquidityPositions |-> liquidityPositions,
     stakePositions |-> stakePositions, error |-> error]

\* a value of the mapping that is no record
NullIntelligence(agentId) ==
    [kind |-> "undefined", agentId |-> agentId, he3Balance |-> JsUndefined,
     resourceBalances |-> NullBalances, liquidityPositions |-> NoPositions,
     stakePositions |-> NoPositions, error |-> JsUndefined]

\* the record stored by the catch of the loop body
FailedIntelligence(agentId) ==
    AgentIntelligence(agentId, Str(<<"0">>), Balances(<<>>), Positions(<<>>), Positions(<<>>),
                      ErrorMessage)

\* the result of a call: an error raised to the caller, or the records in
\* insertion order; fetches counts the fetches the call started
Raised == [called |-> TRUE, raised |-> TRUE, records |-> <<>>, fetches |-> 0]

ReturnedRecords(rs, n) == [called |-> TRUE, raised |-> FALSE, records |-> rs, fetches |-> n]

NotCalled == [called |-> FALSE, raised |-> FALSE, records |-> <<>>, fetches |-> 0]

\* a mutant of FetchedBalances: the catch of a failed fetch stores nothing
FetchedBalances_NoEntry(resources, net) ==
    Balances([i \in DOMAIN SelectSeq(resources, LAMBDA r : net.balance[r].ok) |->
        Entry(SelectSeq(resources, LAMBDA r : net.balance[r].ok)[i],
              BigToString(net.balance[SelectSeq(resources, LAMBDA r : net.balance[r].ok)[i]].val))])

\* the loop over Object.entries(resourceAddresses): a failed fetch leaves
\* "Error" for its resource
FetchedBalances(resources, net) ==
    Balances([i \in DOMAIN resources |->
        Entry(resources[i],
              IF net.balance[resources[i]].ok
              THEN BigToString(net.balance[resources[i]].val) ELSE ErrorStr)])

Step(threw, record, n) == [threw |-> threw, record |-> record, fetches |-> n]

\* a mutant of GatherAgent: the body of the loop has no try / catch
GatherAgent_NoCatch(agentId, resources, net) ==
    IF ~net.he3.ok THEN Step(TRUE, FailedIntelligence(agentId), 1)
    ELSE IF ~net.liquidity.ok
        THEN Step(TRUE, FailedIntelligence(agentId), Len(resources) + 2)
    ELSE IF ~net.stakes.ok
        THEN Step(TRUE, FailedIntelligence(agentId), Len(resources) + 3)
    ELSE Step(FALSE,
              AgentIntelligence(agentId, BigToString(net.he3.val),
                                FetchedBalances(resources, net), net.liquidity.val,
                                net.stakes.val, JsUndefined),
              Len(resources) + 3)

\* the body of the loop over the agents, for an agent other than the current
\* one: the he3 balance, the balance of every resource, the liquidity
\* positions, the stake positions; the first failure outside the loop over
\* the resources ends the body in its catch
GatherAgent(agentId, resources, net) ==
    IF ~net.he3.ok THEN Step(FALSE, FailedIntelligence(agentId), 1)
    ELSE IF ~net.liquidity.ok
        THEN Step(FALSE, FailedIntelligence(agentId), Len(resources) + 2)
    ELSE IF ~net.stakes.ok
        THEN Step(FALSE, FailedIntelligence(agentId), Len(resources) + 3)
    ELSE Step(FALSE,
              AgentIntelligence(agentId, BigToString(net.he3.val),
                                FetchedBalances(resources, net), net.liquidity.val,
                                net.stakes.val, JsUndefined),
              Len(resources) + 3)

\* the loop over Object.entries(agentAddresses)
RECURSIVE GatherLoop(_, _, _, _)
GatherLoop(agents, current, resources, net) ==
    IF agents = <<>> THEN ReturnedRecords(<<>>, 0)
    ELSE LET before == GatherLoop(SubSeq(agents, 1, Len(agents) - 1), current, resources, net)
             agentId == agents[Len(agents)]
         IN  IF before.raised THEN before
             ELSE IF agentId = current THEN before
             ELSE LET step == GatherAgent(agentId, resources, net[agentId]) IN
                  IF step.threw
                  THEN [Raised EXCEPT !.fetches = before.fetches + step.fetches]
                  ELSE ReturnedRecords(Append(before.records, step.record),
                                       before.fetches + step.fetches)

IsKey(keys, name) == \E i \in DOMAIN keys : keys[i] = name

\* a mutant of HasHe3Address: the address is not looked at
HasHe3Address_Unchecked(resources) == TRUE

\* !he3Address is false: the category resources has the key helium3
HasHe3Address(resources) == IsKey(resources, "helium3")

\* a fetch from an address that is missing fails
He3Missing(resources, net) ==
    [a \in DOMAIN net |-> [net[a] EXCEPT !.he3.ok = @ /\ IsKey(resources, "helium3")]]

getCompetitiveIntelligence(agents, current, resources, net) ==
    IF ~IsKey(agents, current) THEN Raised
    ELSE IF ~HasHe3Address(resources) THEN Raised
    ELSE GatherLoop(agents, current, resources, He3Missing(resources, net))

\* the entry of strategicAnalysis for one record
AgentAnalysis(intelligence) ==
    [agentId |-> intelligence.agentId, analysis |-> StrategicAnalysis(intelligence)]

\* a mutant of AnalyzeAgent: a record with an error is analysed like any other
AnalyzeAgent_NoSkip(intelligence) ==
    IF intelligence.kind # "object" THEN [threw |-> TRUE, skip |-> FALSE, entry |-> <<>>]
    ELSE [threw |-> FALSE, skip |-> FALSE, entry |-> AgentAnalysis(intelligence)]

\* a mutant of AnalyzeAgent: the first "Analysis Error" is thrown on, and the
\* loop stores the record of its catch
AnalyzeAgent_ThrowOn(intelligence) ==
    IF intelligence.kind # "object" THEN [threw |-> TRUE, skip |-> FALSE, entry |-> <<>>]
    ELSE IF ~Falsy(intelligence.error) THEN [threw |-> FALSE, skip |-> TRUE, entry |-> <<>>]
    ELSE LET a == StrategicAnalysis(intelligence) IN
         IF AnalysisError \in {a.resourceFocus, a.pathPreference, a.liquidityStrategy,
                               a.stakingStrategy, a.overallStrategy}
         THEN [threw |-> FALSE, skip |-> FALSE,
               entry |-> [agentId |-> intelligence.agentId,
                          analysis |-> [a EXCEPT !.resourceFocus = AnalysisError,
                                                 !.pathPreference = AnalysisError,
                                                 !.liquidityStrategy = AnalysisError,
                                                 !.stakingStrategy = AnalysisError,
                                                 !.overallStrategy = AnalysisError,
                                                 !.counterStrategies = <<AnalysisError>>]]]
         ELSE [threw |-> FALSE, skip |-> FALSE, entry |-> AgentAnalysis(intelligence)]

\* the body of the loop over the records.  Reading a field of a value that is
\* no record throws a TypeError in the try and again in its catch, which
\* reads intelligence.address; a record with an error is skipped; no
\* sub-analysis throws, each has a catch of its own
AnalyzeAgent(intelligence) ==
    IF intelligence.kind # "object" THEN [threw |-> TRUE, skip |-> FALSE, entry |-> <<>>]
    ELSE IF ~Falsy(intelligence.error) THEN [threw |-> FALSE, skip |-> TRUE, entry |-> <<>>]
    ELSE [threw |-> FALSE, skip |-> FALSE, entry |-> AgentAnalysis(intelligence)]

\* the loop over Object.entries(competitiveIntelligence)
RECURSIVE analyzeCompetitorStrategies(_)
analyzeCompetitorStrategies(records) ==
    IF records = <<>> THEN ReturnedRecords(<<>>, 0)
    ELSE LET before == analyzeCompetitorStrategies(SubSeq(records, 1, Len(records) - 1))
             step == AnalyzeAgent(records[Len(records)])
         IN  IF before.raised THEN before
             ELSE IF step.threw THEN Raised
             ELSE IF step.skip THEN before
             ELSE ReturnedRecords(Append(before.records, step.entry), 0)

\* the comparison of two strings by their code units, digits only
RECURSIVE LexGT(_, _)
LexGT(s, t) ==
    IF s = <<>> THEN FALSE
    ELSE IF t = <<>> THEN TRUE
    ELSE IF Head(s) # Head(t) THEN DigitVal(Head(s)) > DigitVal(Head(t))
    ELSE LexGT(Tail(s), Tail(t))

\* a mutant of BalanceGreater: the balances are compared as strings
BalanceGreater_Lexical(a, b) == LexGT(a.he3Balance.chars, b.he3Balance.chars)

\* BigInt(a.he3Balance) > BigInt(b.he3Balance)
BalanceGreater(a, b) ==
    BigGT(StringToBigInt(a.he3Balance.chars).val, StringToBigInt(b.he3Balance.chars).val)

\* the stable sort of rankAgentsByHe3: x goes before the first agent with a
\* smaller balance
RECURSIVE RankInsert(_, _)
RankInsert(x, sorted) ==
    IF sorted = <<>> THEN <<x>>
    ELSE IF BalanceGreater(x, Head(sorted)) THEN <<x>> \o sorted
    ELSE <<Head(sorted)>> \o RankInsert(x, Tail(sorted))

RECURSIVE RankSort(_)
RankSort(bs) ==
    IF bs = <<>> THEN <<>>
    ELSE RankInsert(bs[Len(bs)], RankSort(SubSeq(bs, 1, Len(bs) - 1)))

\* the loop over the agents: the balance as text, or "Error"
FetchedHe3Balances(agents, net) ==
    [i \in DOMAIN agents |->
        [agentId |-> agents[i],
         he3Balance |-> IF net[agents[i]].he3.ok
                        THEN BigToString(net[agents[i]].he3.val) ELSE ErrorStr]]

rankAgentsByHe3(agents, resources, net) ==
    IF ~HasHe3Address(resources) THEN Raised
    ELSE ReturnedRecords(
             RankSort(SelectSeq(FetchedHe3Balances(agents, He3Missing(resources, net)),
                                LAMBDA agent : agent.he3Balance # ErrorStr)),
             Len(agents))

---------------------------------------------------------------------------
(* The inputs the model draws.                                             *)

\* the characters of the generated strings: three digits, a sign, white
\* space, a radix prefix and a letter of no literal
Alphabet == {"0", "1", "9", "-", " ", "x", "r"}

GeneratedStrings == UNION { [1..n -> Alphabet] : n \in 0..MaxStrLen }

\* 2^64 + 1
Above64Bits == <<"1", "8", "4", "4", "6", "7", "4", "4", "0", "7", "3", "7", "0", "9", "5", "5", "1", "6", "1", "7">>

\* 2^64 + 1 with a zero in front
Above64BitsPadded == <<"0", "1", "8", "4", "4", "6", "7", "4", "4", "0", "7", "3", "7", "0", "9", "5", "5", "1", "6", "1", "7">>

NotANumber == <<"n", "o", "t", "-", "a", "-", "n", "u", "m", "b", "e", "r">>

LateGameText == <<"5", "0", "0", "0", "0", "0", "0", "0", "0", "0", "0", "0", "0", "0", "0", "0", "0", "0", "0", "0", "0", "0", "0", "0">>

LateGamePlusOne == <<"5", "0", "0", "0", "0", "0", "0", "0", "0", "0", "0", "0", "0", "0", "0", "0", "0", "0", "0", "0", "0", "0", "0", "1">>

LateGameMinusOne == <<"4", "9", "9", "9", "9", "9", "9", "9", "9", "9", "9", "9", "9", "9", "9", "9", "9", "9", "9", "9", "9", "9", "9", "9">>

EndGameText == <<"8", "0", "0", "0", "0", "0", "0", "0", "0", "0", "0", "0", "0", "0", "0", "0", "0", "0", "0", "0", "0", "0", "0", "0">>

EndGamePlusOne == <<"8", "0", "0", "0", "0", "0", "0", "0", "0", "0", "0", "0", "0", "0", "0", "0", "0", "0", "0", "0", "0", "0", "0", "1">>

TenToThe24 == <<"1", "0", "0", "0", "0", "0", "0", "0", "0", "0", "0", "0", "0", "0", "0", "0", "0", "0", "0", "0", "0", "0", "0", "0", "0">>

ConversionInputs ==
    { Str(s) : s \in GeneratedStrings }
    \cup { JsUndefined, JsNull, ErrorStr, Str(NotANumber), Str(Above64Bits),
           Str(Above64BitsPadded), Str(EndGamePlusOne), Str(TenToThe24) }

\* defaultValue: omitted, or 7n
DefaultValues == { [given |-> FALSE, val |-> BigZero],
                   [given |-> TRUE, val |-> Big(FALSE, <<7>>)] }

ResourceNames == {"wattDollar", "carbon", "neodymium", "graphite", "graphene",
                  "dysprosium", "yttrium", "helium3"}

\* a failed fetch, nothing held, two holdings
FocusValues == { ErrorStr, Str(<<"0">>), Str(<<"5">>), Str(<<"9">>) }

\* every mapping of at most MaxEntries entries, in every insertion order
FocusBalances ==
    { Balances(es) : es \in
        { f \in UNION { [1..n -> [key : ResourceNames, value : FocusValues]]
                        : n \in 0..MaxEntries }
            : \A i, j \in DOMAIN f : i # j => f[i].key # f[j].key } }

LiquidityPosition(a) == [pairAddress |-> a]

StakePosition(a) == [reactorAddress |-> a]

\* the pair addresses of the indexer's answers: every pair and an unknown
\* address in lower case, two pairs also with upper-case letters
PairAddresses ==
    { Address(n, FALSE) : n \in PairIds \cup {0} } \cup { Address(1, TRUE), Address(5, TRUE) }

ReactorAddresses == { Address(n, FALSE) : n \in ReactorIds \cup {0} }

LiquidityLists ==
    { Positions(l) : l \in
        UNION { [1..n -> {LiquidityPosition(a) : a \in PairAddresses}] : n \in 0..MaxPositions } }

StakeLists ==
    { Positions(l) : l \in
        UNION { [1..n -> {StakePosition(a) : a \in ReactorAddresses}] : n \in 0..MaxPositions } }

\* lists of ids in ascending order, of at most MaxPathPositions entries
SortedIdLists(ids) ==
    { l \in UNION { [1..n -> ids] : n \in 0..MaxPathPositions }
        : \A i, j \in DOMAIN l : i < j => l[i] <= l[j] }

\* a carbon, a neodymium and the graphene-yttrium pair, and an unknown one
PathPairIds == {0, 1, 3, 5}

\* the four path reactors, the single-stake reactor and an unknown one
PathReactorIds == {0, 11, 12, 13, 14, 17}

PathLiquidityLists ==
    { Positions([i \in DOMAIN l |-> LiquidityPosition(Address(l[i], FALSE))])
        : l \in SortedIdLists(PathPairIds) }

PathStakeLists ==
    { Positions([i \in DOMAIN l |-> StakePosition(Address(l[i], FALSE))])
        : l \in SortedIdLists(PathReactorIds) }

PathBalances ==
    { Balances(<<>>), Balances(<<Entry("graphene", Str(<<"5">>))>>),
      Balances(<<Entry("yttrium", Str(<<"5">>))>>),
      Balances(<<Entry("graphene", Str(<<"5">>)), Entry("yttrium", Str(<<"5">>))>>) }

He3Balances ==
    { Str(<<"0">>), Str(<<"5">>), Str(Above64Bits), Str(LateGameMinusOne),
      Str(LateGameText), Str(LateGamePlusOne), Str(EndGameText),
      Str(EndGamePlusOne), Str(TenToThe24), ErrorStr }

\* what the mapping may hold for graphene and for yttrium; the empty string
\* and a missing key are falsy
StageValues == { JsUndefined, ErrorStr, Str(<<>>), Str(<<"0">>), Str(<<"5">>) }

StageEntries(g, y) ==
    (IF g = JsUndefined THEN <<>> ELSE <<Entry("graphene", g)>>)
    \o (IF y = JsUndefined THEN <<>> ELSE <<Entry("yttrium", y)>>)

StageBalances ==
    { Balances(StageEntries(g, y)) : g \in StageValues, y \in StageValues }
    \cup { NullBalances }

StageLiquidity ==
    { NoPositions, Positions(<<>>), NotIterable,
      Positions(<<LiquidityPosition(Address(1, FALSE))>>),
      Positions(<<LiquidityPosition(Address(2, TRUE))>>) }

StageStakes == { Positions(<<>>), NotIterable }

Intelligence(h, rb, lp, sp) ==
    [he3Balance |-> h, resourceBalances |-> rb, liquidityPositions |-> lp,
     stakePositions |-> sp]

---------------------------------------------------------------------------
(* The state machine: an input is drawn, then the function is applied.     *)

NoIntelligence ==
    Intelligence(Str(<<"0">>), Balances(<<>>), Positions(<<>>), Positions(<<>>))

NoAnalysis ==
    [he3Balance |-> JsUndefined, resourceFocus |-> "", pathPreference |-> "",
     liquidityStrategy |-> "", stakingStrategy |-> "", overallStrategy |-> "",
     counterStrategies |-> <<>>]

NoResult == [threw |-> FALSE, val |-> BigZero]

ResourceKeyedFile == [lpPairs |-> ResourceKeyedPairs, reactors |-> Reactors]

InitConversion ==
    /\ contractAddresses = ResourceKeyedFile
    /\ value \in ConversionInputs
    /\ defaultValue \in DefaultValues
    /\ intel = NoIntelligence
    /\ pc = "convert"

InitAnalysis ==
    /\ value = JsUndefined
    /\ defaultValue \in { d \in DefaultValues : ~d.given }
    /\ \/ /\ contractAddresses = ResourceKeyedFile
          /\ \E rb \in FocusBalances :
                intel = Intelligence(Str(<<"0">>), rb, Positions(<<>>), Positions(<<>>))
       \/ /\ contractAddresses \in ContractFiles
          /\ \E lp \in LiquidityLists :
                intel = Intelligence(Str(<<"0">>), Balances(<<>>), lp, Positions(<<>>))
       \/ /\ contractAddresses = ResourceKeyedFile
          /\ \E sp \in StakeLists :
                intel = Intelligence(Str(<<"0">>), Balances(<<>>), Positions(<<>>), sp)
       \/ /\ contractAddresses \in ContractFiles
          /\ \E rb \in PathBalances, lp \in PathLiquidityLists, sp \in PathStakeLists :
                intel = Intelligence(Str(<<"0">>), rb, lp, sp)
       \/ /\ contractAddresses \in ContractFiles
          /\ \E h \in He3Balances, rb \in StageBalances, lp \in StageLiquidity,
                sp \in StageStakes :
                intel = Intelligence(h, rb, lp, sp)
    /\ pc = "analyze"

\* no blockchain action is intercepted
NoDashboard ==
    /\ dashboardEnabled = FALSE
    /\ extension = "cli"
    /\ actionCall = <<>>
    /\ handlerOutcome = <<>>
    /\ events = <<>>
    /\ posted = <<>>
    /\ callerResult = <<>>
    /\ clock = 0
    /\ invocations = 0

\* subscribe is not called
NoPrompts ==
    /\ wallClock = 0
    /\ sent = <<>>
    /\ lastUpdateTime = 0
    /\ timerDue = 0
    /\ ticks = 0

\* no call on the chain is made
NoChain ==
    /\ configs = {}
    /\ rpcUrlEnv = ""
    /\ starknetChainCache = <<>>
    /\ lastChainCall = <<>>

\* no goal action is called
NoGoals ==
    /\ agentMemory = <<>>
    /\ goalCall = <<>>
    /\ goalResult = <<>>
    /\ goalCalls = 0
    /\ succeeded = 0

\* no faucet action is called
NoFaucet ==
    /\ faucetCall = <<>>
    /\ faucetResult = <<>>
    /\ chainWrites = <<>>
    /\ faucetCalls = 0

NoExt == NoDashboard /\ NoPrompts /\ NoChain /\ NoGoals /\ NoFaucet

\* no call on all agents is made
NoBatch ==
    /\ agentAddresses = <<>>
    /\ resourceAddresses = <<>>
    /\ currentAgentId = "default-agent"
    /\ network = <<>>
    /\ competitiveIntelligence = NotCalled
    /\ strategicAnalysis = NotCalled
    /\ ranking = NotCalled

Init ==
    /\ converted = NoResult
    /\ analysis = NoAnalysis
    /\ NoBatch
    /\ NoExt
    /\ (InitConversion \/ InitAnalysis)

\* a call of safeBigIntConversion(value, defaultValue)
Convert ==
    /\ pc = "convert"
    /\ converted' = safeBigIntConversion(value,
                        IF defaultValue.given THEN defaultValue.val ELSE BigZero)
    /\ pc' = "converted"
    /\ UNCHANGED <<contractAddresses, value, defaultValue, intel, analysis>>
    /\ UNCHANGED batchVars
    /\ UNCHANGED extVars

\* the body of the loop of analyzeCompetitorStrategies for one record
Analyze ==
    /\ pc = "analyze"
    /\ analysis' = StrategicAnalysis(intel)
    /\ pc' = "analyzed"
    /\ UNCHANGED <<contractAddresses, value, defaultValue, converted, intel>>
    /\ UNCHANGED batchVars
    /\ UNCHANGED extVars

Next == Convert \/ Analyze

Spec == Init /\ [][Next]_vars

---------------------------------------------------------------------------
(* The calls on all agents: the configuration and the outcome of every      *)
(* fetch are drawn, then a call is made.                                    *)

\* the keys of the category agents
AgentIds == <<"agent1", "agent2", "agent3">>

\* 2^53 and 2^53 + 1, which no double tells apart
TwoTo53 == Big(FALSE, <<9, 0, 0, 7, 1, 9, 9, 2, 5, 4, 7, 4, 0, 9, 9, 2>>)

TwoTo53Plus1 == Big(FALSE, <<9, 0, 0, 7, 1, 9, 9, 2, 5, 4, 7, 4, 0, 9, 9, 3>>)

\* what the chain holds for each agent
ChainHe3(agentId) ==
    CASE agentId = "agent1" -> Big(FALSE, <<1, 0, 0>>)
      [] agentId = "agent2" -> TwoTo53Plus1
      [] OTHER -> Big(FALSE, <<5, 0>>)

ChainBalance(agentId, resource) ==
    CASE resource = "helium3" -> ChainHe3(agentId)
      [] resource = "graphene" -> Big(FALSE, <<5>>)
      [] resource = "carbon" -> IF agentId = "agent1" THEN Big(FALSE, <<9>>) ELSE BigZero
      [] OTHER -> BigZero

\* what the indexer holds for each agent
IndexerLiquidity(agentId) ==
    IF agentId = "agent2" THEN Positions(<<>>)
    ELSE Positions(<<LiquidityPosition(Address(1, FALSE))>>)

IndexerStakes(agentId) ==
    IF agentId = "agent2" THEN Positions(<<StakePosition(Address(17, FALSE))>>)
    ELSE Positions(<<>>)

KeySet(keys) == { keys[i] : i \in DOMAIN keys }

\* the fetches for an agent, every one of them failing or not
AgentNetworks(agentId, resources) ==
    { Fetches(Outcome(h, ChainHe3(agentId)),
              [r \in KeySet(resources) |-> Outcome(r \notin failing, ChainBalance(agentId, r))],
              Outcome(l, IndexerLiquidity(agentId)),
              Outcome(s, IndexerStakes(agentId)))
        : h \in BOOLEAN, l \in BOOLEAN, s \in BOOLEAN, failing \in SUBSET KeySet(resources) }

\* the fetches for an agent, none failing
ReachableNetwork(agentId, resources) ==
    Fetches(Outcome(TRUE, ChainHe3(agentId)),
            [r \in KeySet(resources) |-> Outcome(TRUE, ChainBalance(agentId, r))],
            Outcome(TRUE, IndexerLiquidity(agentId)),
            Outcome(TRUE, IndexerStakes(agentId)))

\* the category resources: with helium3 last, with helium3 first, without it
ResourceConfigs ==
    { <<"carbon", "graphene", "helium3">>, <<"helium3", "carbon">>, <<"carbon", "graphene">> }

\* the he3 balance fetch of rankAgentsByHe3: four balances, or a failure
RankOutcomes ==
    { Outcome(TRUE, b) : b \in { Big(FALSE, <<5, 0>>), Big(FALSE, <<1, 0, 0>>),
                                 TwoTo53, TwoTo53Plus1 } }
    \cup { Outcome(FALSE, Big(FALSE, <<5, 0>>)) }

\* the records handed to analyzeCompetitorStrategies: a well-formed one, one
\* without the mapping, early and late in the game, one whose position lists
\* are no arrays, one with an error, and a value that is no record
BatchRecords(agentId) ==
    { AgentIntelligence(agentId, Str(<<"0">>),
                        Balances(<<Entry("graphene", Str(<<"5">>))>>),
                        Positions(<<LiquidityPosition(Address(1, FALSE))>>),
                        Positions(<<>>), JsUndefined),
      AgentIntelligence(agentId, Str(<<"0">>), NullBalances,
                        Positions(<<LiquidityPosition(Address(1, FALSE))>>),
                        Positions(<<StakePosition(Address(17, FALSE))>>), JsUndefined),
      AgentIntelligence(agentId, Str(LateGamePlusOne), NullBalances,
                        Positions(<<>>), Positions(<<>>), JsUndefined),
      AgentIntelligence(agentId, Str(<<"0">>),
                        Balances(<<Entry("yttrium", Str(<<"5">>))>>),
                        NotIterable, Positions(<<>>), JsUndefined),
      AgentIntelligence(agentId, Str(<<"0">>),
                        Balances(<<Entry("carbon", Str(<<"5">>))>>),
                        Positions(<<>>), NotIterable, JsUndefined),
      FailedIntelligence(agentId),
      NullIntelligence(agentId) }

\* the fetches drawn for an agent: no fetch is made for the current agent;
\* when the current agent is not configured the call makes no fetch at all,
\* and the fetches of one agent only are drawn
GatherNetworks(agentId, current, resources) ==
    IF agentId = current \/ (current = "default-agent" /\ agentId # "agent2")
    THEN { ReachableNetwork(agentId, resources) }
    ELSE AgentNetworks(agentId, resources)

NoClassifier ==
    /\ contractAddresses = ResourceKeyedFile
    /\ value = JsUndefined
    /\ defaultValue = [given |-> FALSE, val |-> BigZero]
    /\ converted = NoResult
    /\ intel = NoIntelligence
    /\ analysis = NoAnalysis

InitGather ==
    /\ agentAddresses = AgentIds
    /\ resourceAddresses \in ResourceConfigs
    /\ currentAgentId \in {"agent1", "agent3", "default-agent"}
    /\ \E n1 \in GatherNetworks("agent1", currentAgentId, resourceAddresses),
          n2 \in GatherNetworks("agent2", currentAgentId, resourceAddresses),
          n3 \in GatherNetworks("agent3", currentAgentId, resourceAddresses) :
            network = ("agent1" :> n1) @@ ("agent2" :> n2) @@ ("agent3" :> n3)
    /\ competitiveIntelligence = NotCalled
    /\ pc = "gather"

InitAnalyzeAll ==
    /\ agentAddresses = AgentIds
    /\ resourceAddresses = <<"carbon", "graphene", "helium3">>
    /\ currentAgentId = "default-agent"
    /\ network = [a \in KeySet(AgentIds) |-> ReachableNetwork(a, resourceAddresses)]
    /\ \E r1 \in BatchRecords("agent1"), r2 \in BatchRecords("agent2"),
          r3 \in BatchRecords("agent3") :
            competitiveIntelligence = ReturnedRecords(<<r1, r2, r3>>, 0)
    /\ pc = "analyzeAll"

InitRank ==
    /\ agentAddresses = AgentIds
    /\ resourceAddresses \in { <<"carbon", "helium3">>, <<"carbon">> }
    /\ currentAgentId = "agent1"
    /\ \E h \in [KeySet(AgentIds) -> RankOutcomes] :
          network = [a \in KeySet(AgentIds) |->
                        [ReachableNetwork(a, resourceAddresses) EXCEPT !.he3 = h[a]]]
    /\ competitiveIntelligence = NotCalled
    /\ pc = "rank"

InitBatch ==
    /\ NoClassifier
    /\ NoExt
    /\ strategicAnalysis = NotCalled
    /\ ranking = NotCalled
    /\ (InitGather \/ InitAnalyzeAll \/ InitRank)

\* a call of getCompetitiveIntelligence()
GetCompetitiveIntelligence ==
    /\ pc = "gather"
    /\ competitiveIntelligence' =
           getCompetitiveIntelligence(agentAddresses, currentAgentId, resourceAddresses, network)
    /\ pc' = "gathered"
    /\ UNCHANGED <<contractAddresses, value, defaultValue, converted, intel, analysis>>
    /\ UNCHANGED <<agentAddresses, resourceAddresses, currentAgentId, network,
                   strategicAnalysis, ranking>>
    /\ UNCHANGED extVars

\* a call of analyzeCompetitorStrategies on the records gathered, or on
\* records handed in
AnalyzeCompetitorStrategies ==
    /\ \/ pc = "analyzeAll"
       \/ (pc = "gathered" /\ ~competitiveIntelligence.raised)
    /\ strategicAnalysis' = analyzeCompetitorStrategies(competitiveIntelligence.records)
    /\ pc' = "analyzedAll"
    /\ UNCHANGED <<contractAddresses, value, defaultValue, converted, intel, analysis>>
    /\ UNCHANGED <<agentAddresses, resourceAddresses, currentAgentId, network,
                   competitiveIntelligence, ranking>>
    /\ UNCHANGED extVars

\* a call of rankAgentsByHe3()
RankAgentsByHe3 ==
    /\ pc = "rank"
    /\ ranking' = rankAgentsByHe3(agentAddresses, resourceAddresses, network)
    /\ pc' = "ranked"
    /\ UNCHANGED <<contractAddresses, value, defaultValue, converted, intel, analysis>>
    /\ UNCHANGED <<agentAddresses, resourceAddresses, currentAgentId, network,
                   competitiveIntelligence, strategicAnalysis>>
    /\ UNCHANGED extVars

NextBatch == GetCompetitiveIntelligence \/ AnalyzeCompetitorStrategies \/ RankAgentsByHe3

SpecBatch == InitBatch /\ [][NextBatch]_vars

---------------------------------------------------------------------------
(* interceptBlockchainAction of the extensions cli and autonomous-cli, and *)
(* the handler of the dashboard:action output it reports to.  One call of  *)
(* the wrapped handler is three steps: the pending report, the original    *)
(* handler, the terminal report.  events and posted hold what the call in  *)
(* progress (or the last call) did.                                        *)

\* most calls of the wrapped handler
MaxCalls == 2

\* greatest value of Date.now()
MaxClock == 2

\* the values of Math.random().toString(36).substring(2, 10)
Rands == {"r1", "r2"}

\* an action call; "" stands for a key the call does not have
Call(id, name, callId, transactionId, txHash) ==
    [id |-> id, name |-> name, callId |-> callId, transactionId |-> transactionId,
     txHash |-> txHash, result |-> "", error |-> ""]

\* the calls handed to the wrapped handler: one of the type ActionCall (ref,
\* id, name, data, timestamp), and calls that also carry a callId, a
\* transactionId or a txHash
ActionCalls ==
    { Call("call-1", "blockchain:claimFaucet", "", "", ""),
      Call("call-2", "blockchain:claimFaucet", "call-2", "", ""),
      Call("call-3", "blockchain:claimFaucet", "", "tx-3", ""),
      Call("call-4", "blockchain:claimFaucet", "", "", "0xabc") }

\* what the original handler does: it returns a result, or throws an Error
HandlerOutcomes == { [threw |-> FALSE, val |-> "claimed"], [threw |-> TRUE, val |-> "reverted"] }

\* the type reported: autonomous-cli passes the action name on, cli takes
\* actionName.split(':')[1]?.toUpperCase() || actionName
ActionType(ext, actionName) ==
    IF ext = "cli"
    THEN CASE actionName = "blockchain:claimFaucet" -> "CLAIMFAUCET"
           [] OTHER -> actionName
    ELSE actionName

\* content.type.toLowerCase()
TypeToLowerCase(type) ==
    CASE type = "CLAIMFAUCET" -> "claimfaucet"
      [] type = "blockchain:claimFaucet" -> "blockchain:claimfaucet"
      [] OTHER -> type

\* { ...call, result } and { ...call, error: error.message }
WithResult(call, result) == [call EXCEPT !.result = result]

WithError(call, message) == [call EXCEPT !.error = message]

\* the first argument of the handler of the dashboard output
Content(type, status, details) == [type |-> type, status |-> status, details |-> details]

\* "Generate a consistent ID for the action based on its details"
ActionId(content, now, rand) ==
    IF content.details.callId # "" THEN <<"action", content.details.callId>>
    ELSE IF content.details.transactionId # ""
        THEN <<"action-tx", content.details.transactionId>>
    ELSE IF content.details.txHash # "" THEN <<"action-tx", content.details.txHash>>
    ELSE <<"action", TypeToLowerCase(content.type), now, rand>>

\* the body posted to /api/actions and the one posted to /api/agents/:id/status
ActionPost(content, now, rand) ==
    [path |-> "actions", id |-> ActionId(content, now, rand), type |-> content.type,
     status |-> content.status, details |-> content.details, timestamp |-> now]

StatusPost(status, now) ==
    [path |-> "status", id |-> <<>>, type |-> "", status |-> status,
     details |-> <<>>, timestamp |-> now]

\* the handler of dashboard:action: the requests that reach the dashboard
\* when the first `up` requests succeed; a request that fails ends the try,
\* and the catch only logs
DashboardActionPosts(enabled, content, now, rand, up) ==
    IF ~enabled THEN <<>>
    ELSE (IF up >= 1 THEN <<ActionPost(content, now, rand)>> ELSE <<>>)
         \o (IF up >= 2 /\ content.status = "pending"
             THEN <<StatusPost("executing", now)>> ELSE <<>>)

\* an entry of events: a call of the handler of the dashboard output, the
\* start and the end of the original handler
Output(content) == [ev |-> "output", content |-> content]

HandlerStart == [ev |-> "start", content |-> <<>>]

HandlerEnd == [ev |-> "end", content |-> <<>>]

\* a mutant of TerminalReports: the success report is sent whatever the
\* handler did
TerminalReports_SuccessFirst(type, call, outcome) ==
    <<Content(type, "success", WithResult(call, outcome.val))>>
    \o (IF outcome.threw
        THEN <<Content(type, "failed", WithError(call, outcome.val))>> ELSE <<>>)

\* the reports after the original handler: success with the result in the
\* try, failed with the message of the error in the catch
TerminalReports(type, call, outcome) ==
    IF outcome.threw
    THEN <<Content(type, "failed", WithError(call, outcome.val))>>
    ELSE <<Content(type, "success", WithResult(call, outcome.val))>>

\* return result / throw error
CallerGets(outcome) ==
    [state |-> IF outcome.threw THEN "thrown" ELSE "returned", val |-> outcome.val]

\* Date.now() does not go back
LaterClock == { c \in {clock, clock + 1} : c <= MaxClock }

InitDash ==
    /\ dashboardEnabled \in BOOLEAN
    /\ extension \in {"cli", "autonomous-cli"}
    /\ actionCall = <<>>
    /\ handlerOutcome = <<>>
    /\ events = <<>>
    /\ posted = <<>>
    /\ callerResult = <<>>
    /\ clock = 0
    /\ invocations = 0
    /\ pc = "invoke"

InitIntercept ==
    /\ NoClassifier
    /\ NoGoals
    /\ NoFaucet
    /\ NoBatch
    /\ NoPrompts
    /\ NoChain
    /\ InitDash

\* the wrapped handler is called: the pending report is sent and awaited
SendPending ==
    /\ pc = "invoke"
    /\ dashboardEnabled
    /\ invocations < MaxCalls
    /\ \E call \in ActionCalls, rand \in Rands, up \in 0..2 :
          LET content == Content(ActionType(extension, call.name), "pending", call) IN
          /\ actionCall' = call
          /\ events' = <<Output(content)>>
          /\ posted' = DashboardActionPosts(dashboardEnabled, content, clock, rand, up)
    /\ handlerOutcome' = <<>>
    /\ callerResult' = <<>>
    /\ pc' = "pending"
    /\ UNCHANGED <<dashboardEnabled, extension, clock, invocations>>
    /\ UNCHANGED <<classifierVars, batchVars, promptVars, chainVars, goalVars, faucetVars>>

\* await originalHandler(call, ...args)
RunHandler ==
    /\ pc = "pending"
    /\ handlerOutcome' \in HandlerOutcomes
    /\ events' = events \o <<HandlerStart, HandlerEnd>>
    /\ clock' \in LaterClock
    /\ pc' = "handled"
    /\ UNCHANGED <<dashboardEnabled, extension, actionCall, posted, callerResult, invocations>>
    /\ UNCHANGED <<classifierVars, batchVars, promptVars, chainVars, goalVars, faucetVars>>

\* the terminal report is sent and awaited, then the result is returned or
\* the error thrown again
SendTerminal ==
    /\ pc = "handled"
    /\ \E rand \in Rands, up \in 0..1 :
          LET reports == TerminalReports(ActionType(extension, actionCall.name),
                                         actionCall, handlerOutcome)
          IN  /\ events' = events \o [i \in DOMAIN reports |-> Output(reports[i])]
              /\ posted' = posted \o
                    (IF reports = <<>> THEN <<>>
                     ELSE DashboardActionPosts(dashboardEnabled, reports[1], clock, rand, up)
                          \o (IF Len(reports) > 1
                              THEN DashboardActionPosts(dashboardEnabled, reports[2], clock,
                                                        rand, up)
                              ELSE <<>>))
    /\ callerResult' = CallerGets(handlerOutcome)
    /\ invocations' = invocations + 1
    /\ pc' = "invoke"
    /\ UNCHANGED <<dashboardEnabled, extension, actionCall, handlerOutcome, clock>>
    /\ UNCHANGED <<classifierVars, batchVars, promptVars, chainVars, goalVars, faucetVars>>

\* with the dashboard off the handler is not wrapped (autonomous-cli), or the
\* wrapper hands the call straight to the original handler (cli)
CallUnwrapped ==
    /\ pc = "invoke"
    /\ ~dashboardEnabled
    /\ invocations < MaxCalls
    /\ actionCall' \in ActionCalls
    /\ \E outcome \in HandlerOutcomes :
          /\ handlerOutcome' = outcome
          /\ callerResult' = CallerGets(outcome)
    /\ events' = <<HandlerStart, HandlerEnd>>
    /\ posted' = <<>>
    /\ clock' \in LaterClock
    /\ invocations' = invocations + 1
    /\ pc' = "invoke"
    /\ UNCHANGED <<dashboardEnabled, extension>>
    /\ UNCHANGED <<classifierVars, batchVars, promptVars, chainVars, goalVars, faucetVars>>

NextIntercept == SendPending \/ RunHandler \/ SendTerminal \/ CallUnwrapped

SpecIntercept == InitIntercept /\ [][NextIntercept]_vars

---------------------------------------------------------------------------

(* The prompt schedule of the extension autonomous-cli: subscribe of the   *)
(* input cli:message.  Every action is the callback of a timer; a timer    *)
(* fires when it is due or a little later, never earlier.                  *)

\* most callbacks of the interval
MaxTicks == 10

\* how late a timer may fire, in ms
Lateness == {0, 1000}

\* the delay before START, of the two setTimeout and of the setInterval
InitialDelay == 1000

Minute == 60000

\* `timeSinceLastUpdate >= 300000`
UpdateEvery == 300000

Prompt(text, at) == [text |-> text, at |-> at]

\* a mutant of TickPrompt: UPDATE only when more than 300000 ms have passed
TickPrompt_Strict(currentTime, last) ==
    IF currentTime - last > UpdateEvery THEN "UPDATE" ELSE "EXECUTION"

\* the body of the callback of setInterval
TickPrompt(currentTime, last) ==
    IF currentTime - last >= UpdateEvery THEN "UPDATE" ELSE "EXECUTION"

InitSchedule ==
    /\ wallClock = 0
    /\ sent = <<>>
    /\ lastUpdateTime = 0
    /\ timerDue = InitialDelay
    /\ ticks = 0
    /\ pc = "delay"

InitPrompts ==
    /\ NoClassifier
    /\ NoGoals
    /\ NoFaucet
    /\ NoBatch
    /\ NoDashboard
    /\ NoChain
    /\ InitSchedule

\* after the initial delay: send START, arm the timer of the first UPDATE
SendStart ==
    /\ pc = "delay"
    /\ \E late \in Lateness : wallClock' = timerDue + late
    /\ sent' = Append(sent, Prompt("START", wallClock'))
    /\ timerDue' = wallClock' + Minute
    /\ pc' = "firstUpdate"
    /\ UNCHANGED <<lastUpdateTime, ticks>>
    /\ UNCHANGED <<classifierVars, batchVars, dashVars, chainVars, goalVars, faucetVars>>

\* the callback of the outer setTimeout: send UPDATE, set lastUpdateTime,
\* arm the timer that starts the interval
SendFirstUpdate ==
    /\ pc = "firstUpdate"
    /\ \E late \in Lateness : wallClock' = timerDue + late
    /\ sent' = Append(sent, Prompt("UPDATE", wallClock'))
    /\ lastUpdateTime' = wallClock'
    /\ timerDue' = wallClock' + Minute
    /\ pc' = "startInterval"
    /\ UNCHANGED ticks
    /\ UNCHANGED <<classifierVars, batchVars, dashVars, chainVars, goalVars, faucetVars>>

\* the callback of the inner setTimeout: setInterval(..., 60000); the
\* callback of the interval first runs one interval later
StartInterval ==
    /\ pc = "startInterval"
    /\ \E late \in Lateness : wallClock' = timerDue + late
    /\ timerDue' = wallClock' + Minute
    /\ pc' = "interval"
    /\ UNCHANGED <<sent, lastUpdateTime, ticks>>
    /\ UNCHANGED <<classifierVars, batchVars, dashVars, chainVars, goalVars, faucetVars>>

\* the callback of setInterval
Tick ==
    /\ pc = "interval"
    /\ ticks < MaxTicks
    /\ \E late \in Lateness : wallClock' = timerDue + late
    /\ sent' = Append(sent, Prompt(TickPrompt(wallClock', lastUpdateTime), wallClock'))
    /\ lastUpdateTime' = IF TickPrompt(wallClock', lastUpdateTime) = "UPDATE"
                         THEN wallClock' ELSE lastUpdateTime
    /\ timerDue' = wallClock' + Minute
    /\ ticks' = ticks + 1
    /\ UNCHANGED pc
    /\ UNCHANGED <<classifierVars, batchVars, dashVars, chainVars, goalVars, faucetVars>>

NextPrompts == SendStart \/ SendFirstUpdate \/ StartInterval \/ Tick

\* the event loop runs every timer that is due
SpecPrompts == InitPrompts /\ [][NextPrompts]_vars /\ WF_vars(NextPrompts)

---------------------------------------------------------------------------

(* The Starknet configuration of utils/starknet.ts: setCurrentAgentId,     *)
(* getStarknetConfig, getStarknetChain, the lazy starknetChain and         *)
(* executeMultiCall, with the StarknetConfigStore of agents/common.        *)
(* currentAgentId holds "default-agent" while the variable of the module   *)
(* is null.                                                                *)

ChainAgents == {"agent1", "agent2"}

\* the configuration createAgent stores for an agent
AgentConfig(agentId) ==
    [rpcUrl |-> "rpc-of-" \o agentId, address |-> "address-of-" \o agentId,
     privateKey |-> "key-of-" \o agentId]

\* "Return a minimal configuration with just the RPC URL"
MinimalConfig(rpcUrl) == [rpcUrl |-> rpcUrl, address |-> "0x0", privateKey |-> "0x0"]

\* the value of STARKNET_RPC_URL: not set, or set
RpcUrls == {"", "rpc-of-env"}

ConfigFound(config) == [threw |-> FALSE, config |-> config]

ConfigError == [threw |-> TRUE, config |-> <<>>]

\* getStarknetConfig()
getStarknetConfig(agentId, stored, rpcUrl) ==
    IF agentId # "default-agent" /\ agentId \in stored THEN ConfigFound(AgentConfig(agentId))
    ELSE IF rpcUrl = "" THEN ConfigError
    ELSE IF agentId # "default-agent" THEN ConfigError
    ELSE ConfigFound(MinimalConfig(rpcUrl))

\* `if (!_starknetChain) { _starknetChain = getStarknetChain(); }`: the
\* configuration of the chain the call goes to
ChainFor(cache, agentId, stored, rpcUrl) ==
    IF cache # <<>> THEN ConfigFound(cache)
    ELSE getStarknetConfig(agentId, stored, rpcUrl)

\* what a call was made with: the operation, the agent id set at the time,
\* whether its configuration was stored, and the configuration used (or the
\* error raised)
ChainCall(op, agentId, stored, outcome) ==
    [op |-> op, agentId |-> agentId, stored |-> agentId \in stored, threw |-> outcome.threw,
     config |-> outcome.config]

InitStarknet ==
    /\ currentAgentId = "default-agent"
    /\ configs = {}
    /\ rpcUrlEnv \in RpcUrls
    /\ starknetChainCache = <<>>
    /\ lastChainCall = <<>>
    /\ pc = "chain"

InitChain ==
    /\ NoClassifier
    /\ NoGoals
    /\ NoFaucet
    /\ agentAddresses = <<>>
    /\ resourceAddresses = <<>>
    /\ network = <<>>
    /\ competitiveIntelligence = NotCalled
    /\ strategicAnalysis = NotCalled
    /\ ranking = NotCalled
    /\ NoDashboard
    /\ NoPrompts
    /\ InitStarknet

\* what no operation of utils/starknet.ts touches
ChainFrame ==
    /\ UNCHANGED <<classifierVars, pc, dashVars, promptVars, goalVars, faucetVars>>
    /\ UNCHANGED <<agentAddresses, resourceAddresses, network, competitiveIntelligence,
                   strategicAnalysis, ranking>>

\* setCurrentAgentId(agentId)
SetCurrentAgentId ==
    /\ pc = "chain"
    /\ currentAgentId' \in ChainAgents
    /\ UNCHANGED <<configs, rpcUrlEnv, starknetChainCache, lastChainCall>>
    /\ ChainFrame

\* StarknetConfigStore.getInstance().setConfig(config.id, config.starknetConfig)
SetConfig ==
    /\ pc = "chain"
    /\ \E agentId \in ChainAgents : configs' = configs \cup {agentId}
    /\ UNCHANGED <<currentAgentId, rpcUrlEnv, starknetChainCache, lastChainCall>>
    /\ ChainFrame

\* a call through the lazy starknetChain
LazyCall(op) ==
    LET chain == ChainFor(starknetChainCache, currentAgentId, configs, rpcUrlEnv) IN
    /\ pc = "chain"
    /\ starknetChainCache' = IF chain.threw THEN starknetChainCache ELSE chain.config
    /\ lastChainCall' = ChainCall(op, currentAgentId, configs, chain)
    /\ UNCHANGED <<currentAgentId, configs, rpcUrlEnv>>
    /\ ChainFrame

\* starknetChain.read(params)
Read == LazyCall("read")

\* starknetChain.write(params)
Write == LazyCall("write")

\* starknetChain.executeMulticall(calls)
ExecuteMulticall == LazyCall("executeMulticall")

\* executeMultiCall(calls), which builds a chain of its own
ExecuteMultiCall ==
    /\ pc = "chain"
    /\ lastChainCall' = ChainCall("executeMultiCall", currentAgentId, configs,
                                  getStarknetConfig(currentAgentId, configs, rpcUrlEnv))
    /\ UNCHANGED <<currentAgentId, configs, rpcUrlEnv, starknetChainCache>>
    /\ ChainFrame

NextChain ==
    \/ SetCurrentAgentId
    \/ SetConfig
    \/ Read
    \/ Write
    \/ ExecuteMulticall
    \/ ExecuteMultiCall

SpecChain == InitChain /\ [][NextChain]_vars

---------------------------------------------------------------------------

(* The goal actions addTask, setGoalPlan, updateGoal and deleteGoal of     *)
(* actions/goals.ts on the goal memory created by the goal context.        *)
(* Date.now() is the number of the call.                                   *)

\* most calls of the goal actions
MaxGoalCalls == 3

GoalTerms == <<"long_term", "medium_term", "short_term">>

\* a goal: its id, and its description standing for all other properties
SingleGoal(id, description) == [id |-> id, description |-> description]

\* the goal structure; kind "null" stands for goal: null
Goal(long, medium, short) ==
    [kind |-> "object", long_term |-> long, medium_term |-> medium, short_term |-> short]

NullGoal == [kind |-> "null", long_term |-> <<>>, medium_term |-> <<>>, short_term |-> <<>>]

\* create() of the goal context
CreatedMemory == [goal |-> NullGoal, history |-> <<>>, lastUpdated |-> 0]

\* what a handler returns: an object with or without the key error
Succeeded == [error |-> FALSE]

Failed == [error |-> TRUE]

Handled(memory, result) == [memory |-> memory, result |-> result]

\* `id: task_${Date.now()}_${Math.random()...}`
NewTaskId(now) == <<"task", now>>

\* mutants of addTask and of setGoalPlan: the history starts anew
addTask_NewHistory(memory, data, now) ==
    LET goal == IF memory.goal.kind = "null" THEN Goal(<<>>, <<>>, <<>>) ELSE memory.goal
        newTask == SingleGoal(NewTaskId(now), data.task)
    IN  Handled([goal |-> [goal EXCEPT ![data.term] = Append(@, newTask)],
                 history |-> <<<<"Added new", data.term, data.task>>>>,
                 lastUpdated |-> now],
                Succeeded)

setGoalPlan_NewHistory(memory, data, now) ==
    Handled([goal |-> data.goal,
             history |-> IF data.preserveHistory
                         THEN Append(memory.history, <<"Updated complete goal plan">>)
                         ELSE <<<<"Updated complete goal plan">>>>,
             lastUpdated |-> now],
            Succeeded)

\* the handler of addTask, with the memory of the context in place
addTask(memory, data, now) ==
    LET goal == IF memory.goal.kind = "null" THEN Goal(<<>>, <<>>, <<>>) ELSE memory.goal
        newTask == SingleGoal(NewTaskId(now), data.task)
    IN  Handled([goal |-> [goal EXCEPT ![data.term] = Append(@, newTask)],
                 history |-> Append(memory.history, <<"Added new", data.term, data.task>>),
                 lastUpdated |-> now],
                Succeeded)

\* the handler of setGoalPlan: with preserveHistory the history is assigned
\* to itself, without it the array is left in place
setGoalPlan(memory, data, now) ==
    Handled([goal |-> data.goal,
             history |-> Append(memory.history, <<"Updated complete goal plan">>),
             lastUpdated |-> now],
            Succeeded)

\* `call.data.term ? [call.data.term] : ["long_term", "medium_term", "short_term"]`
SearchedTerms(term) == IF term = "" THEN GoalTerms ELSE <<term>>

\* findIndex: the first place of a goal with the id, 0 when there is none
FindIndex(goals, id) ==
    IF \E i \in DOMAIN goals : goals[i].id = id
    THEN CHOOSE i \in DOMAIN goals : goals[i].id = id /\ \A j \in 1..(i - 1) : goals[j].id # id
    ELSE 0

\* the loop over the terms up to its break: the first term that holds the id
RECURSIVE FirstMatch(_, _, _)
FirstMatch(goal, terms, id) ==
    IF terms = <<>> THEN [term |-> "", index |-> 0]
    ELSE IF FindIndex(goal[Head(terms)], id) # 0
        THEN [term |-> Head(terms), index |-> FindIndex(goal[Head(terms)], id)]
    ELSE FirstMatch(goal, Tail(terms), id)

\* a mutant of RemoveAt: splice removes the goals from the index on
RemoveAt_ToEnd(goals, index) == SubSeq(goals, 1, index - 1)

\* splice(goalIndex, 1)
RemoveAt(goals, index) == SubSeq(goals, 1, index - 1) \o SubSeq(goals, index + 1, Len(goals))

\* the handler of updateGoal
updateGoal(memory, data, now) ==
    IF memory.goal.kind = "null" THEN Handled(memory, Failed)
    ELSE LET match == FirstMatch(memory.goal, SearchedTerms(data.term), data.goal.id) IN
         IF match.index = 0 THEN Handled(memory, Failed)
         ELSE Handled([goal |-> [memory.goal EXCEPT ![match.term][match.index] = data.goal],
                       history |-> Append(memory.history,
                                          <<"Updated", match.term, data.goal.description>>),
                       lastUpdated |-> now],
                      Succeeded)

\* the handler of deleteGoal
deleteGoal(memory, data, now) ==
    IF memory.goal.kind = "null" THEN Handled(memory, Failed)
    ELSE LET match == FirstMatch(memory.goal, SearchedTerms(data.term), data.goalId) IN
         IF match.index = 0 THEN Handled(memory, Failed)
         ELSE Handled([goal |-> [memory.goal EXCEPT
                                    ![match.term] = RemoveAt(@, match.index)],
                       history |-> Append(memory.history,
                                          <<"Deleted", match.term,
                                            memory.goal[match.term][match.index].description>>),
                       lastUpdated |-> now],
                      Succeeded)

\* the ids of the goals of the plans, one of them in no plan
PlanGoalIds == {<<"goal", 1>>, <<"goal", 2>>, <<"goal", 3>>}

\* the plans handed to setGoalPlan: an id may be in two terms and twice in
\* one term
GoalPlans ==
    { Goal(<<SingleGoal(<<"goal", 1>>, "l1")>>,
           <<SingleGoal(<<"goal", 1>>, "m1"), SingleGoal(<<"goal", 2>>, "m2")>>,
           <<SingleGoal(<<"goal", 2>>, "s1"), SingleGoal(<<"goal", 2>>, "s2")>>),
      Goal(<<>>, <<>>, <<SingleGoal(<<"goal", 1>>, "s1")>>) }

\* the terms given to updateGoal and deleteGoal; "" stands for no term
GivenTerms == {"", "medium_term", "short_term"}

Called(name, data) == [name |-> name, data |-> data]

InitGoals ==
    /\ agentMemory = CreatedMemory
    /\ goalCall = <<>>
    /\ goalResult = <<>>
    /\ goalCalls = 0
    /\ succeeded = 0
    /\ pc = "goals"

InitGoalActions ==
    /\ NoClassifier
    /\ NoBatch
    /\ NoDashboard
    /\ NoPrompts
    /\ NoChain
    /\ NoFaucet
    /\ InitGoals

\* the call is handled: the memory and the result are those of the handler
Handle(call, handled) ==
    /\ agentMemory' = handled.memory
    /\ goalCall' = call
    /\ goalResult' = handled.result
    /\ goalCalls' = goalCalls + 1
    /\ succeeded' = succeeded + (IF handled.result.error THEN 0 ELSE 1)
    /\ UNCHANGED <<classifierVars, pc, batchVars, dashVars, promptVars, chainVars, faucetVars>>

AddTask ==
    /\ pc = "goals"
    /\ goalCalls < MaxGoalCalls
    /\ \E term \in {"long_term", "short_term"} :
            LET data == [task |-> "t", term |-> term] IN
            Handle(Called("addTask", data), addTask(agentMemory, data, goalCalls + 1))

SetGoalPlan ==
    /\ pc = "goals"
    /\ goalCalls < MaxGoalCalls
    /\ \E goal \in GoalPlans, preserveHistory \in BOOLEAN :
            LET data == [goal |-> goal, preserveHistory |-> preserveHistory] IN
            Handle(Called("setGoalPlan", data), setGoalPlan(agentMemory, data, goalCalls + 1))

UpdateGoal ==
    /\ pc = "goals"
    /\ goalCalls < MaxGoalCalls
    /\ \E id \in PlanGoalIds \cup {NewTaskId(1)}, term \in GivenTerms :
            LET data == [goal |-> SingleGoal(id, "u"), term |-> term] IN
            Handle(Called("updateGoal", data), updateGoal(agentMemory, data, goalCalls + 1))

DeleteGoal ==
    /\ pc = "goals"
    /\ goalCalls < MaxGoalCalls
    /\ \E id \in PlanGoalIds \cup {NewTaskId(1)}, term \in GivenTerms :
            LET data == [goalId |-> id, term |-> term] IN
            Handle(Called("deleteGoal", data), deleteGoal(agentMemory, data, goalCalls + 1))

NextGoals == AddTask \/ SetGoalPlan \/ UpdateGoal \/ DeleteGoal

SpecGoals == InitGoalActions /\ [][NextGoals]_vars

---------------------------------------------------------------------------

(* The faucet actions claimFaucet and getClaimTimeStatus of                *)
(* actions/blockchain/faucet.ts. What the chain answers and what Date.now()*)
(* gives are inputs of each call.                                          *)

\* most calls of the faucet actions
MaxFaucetCalls == 2

\* a JavaScript number: NaN or an integer
NaN == [nan |-> TRUE, val |-> 0]

Num(n) == [nan |-> FALSE, val |-> n]

\* what awaiting chain.read or chain.write gives: the felts of the answer or
\* the receipt, the Error object the catch returns, or a rejection
Felts(felts) == [kind |-> "felts", felts |-> felts, statusReceipt |-> ""]

Receipt(statusReceipt) == [kind |-> "receipt", felts |-> <<>>, statusReceipt |-> statusReceipt]

ErrorObject == [kind |-> "error", felts |-> <<>>, statusReceipt |-> ""]

Rejected == [kind |-> "rejected", felts |-> <<>>, statusReceipt |-> ""]

\* Number(x) of what chain.read gave: an array is first turned into the
\* string of its elements joined by commas
ToNumber(x) ==
    IF x.kind # "felts" THEN NaN
    ELSE IF x.felts = <<>> THEN Num(0)
    ELSE IF Len(x.felts) = 1 THEN Num(x.felts[1])
    ELSE NaN

\* Math.ceil(a / b) for b > 0
Ceil(a, b) == -((-a) \div b)

\* a mutant of CanClaim: the seconds of the chain are compared with the
\* milliseconds of the clock
CanClaim_Seconds(now, lastClaim, interval) ==
    /\ ~lastClaim.nan
    /\ ~interval.nan
    /\ now >= lastClaim.val + interval.val

\* `Date.now() >= (Number(lastClaim) + Number(interval)) * 1000`; a
\* comparison with NaN is false
CanClaim(now, lastClaim, interval) ==
    /\ ~lastClaim.nan
    /\ ~interval.nan
    /\ now >= (lastClaim.val + interval.val) * 1000

\* minutesLeft, from the second reading of the clock
MinutesLeft(now, lastClaim, interval) ==
    IF lastClaim.nan \/ interval.nan THEN NaN
    ELSE Num(Ceil((lastClaim.val + interval.val) * 1000 - now, 60000))

\* checkFaucetStatus once both reads are resolved
checkFaucetStatus(lastClaim, interval, now, later) ==
    [canClaim |-> CanClaim(now, ToNumber(lastClaim), ToNumber(interval)),
     minutesLeft |-> MinutesLeft(later, ToNumber(lastClaim), ToNumber(interval))]

\* what a handler returns; minutesLeft is NaN where the object has none
FaucetReturn(success, message, minutesLeft) ==
    [success |-> success, message |-> message, minutesLeft |-> minutesLeft]

\* what a handler does: what it returns and the writes it sends to the chain
Done(returned, writes) == [returned |-> returned, writes |-> writes]

\* the handler of claimFaucet
claimFaucet(lastClaim, interval, now, later, written) ==
    IF lastClaim.kind = "rejected" \/ interval.kind = "rejected"
    THEN Done(FaucetReturn(FALSE, "error", NaN), <<>>)
    ELSE LET status == checkFaucetStatus(lastClaim, interval, now, later) IN
         IF ~status.canClaim
         THEN Done(FaucetReturn(FALSE, "Cannot claim yet", status.minutesLeft), <<>>)
         ELSE IF written.kind = "rejected"
             THEN Done(FaucetReturn(FALSE, "error", NaN), <<"claim">>)
         ELSE IF written.statusReceipt # "success"
             THEN Done(FaucetReturn(FALSE, "Failed to claim tokens from faucet", NaN), <<"claim">>)
         ELSE Done(FaucetReturn(TRUE, "Claimed", NaN), <<"claim">>)

\* the handler of getClaimTimeStatus
getClaimTimeStatus(lastClaim, interval, now, later) ==
    IF lastClaim.kind = "rejected" \/ interval.kind = "rejected"
    THEN Done(FaucetReturn(FALSE, "error", NaN), <<>>)
    ELSE Done(FaucetReturn(TRUE, "status",
                       checkFaucetStatus(lastClaim, interval, now, later).minutesLeft), <<>>)

\* the answers to get_last_claim and to get_claim_interval, in seconds
LastClaimReads == {Felts(<<>>), Felts(<<30>>), Felts(<<30, 0>>), ErrorObject, Rejected}

IntervalReads == {Felts(<<30>>), Felts(<<60>>), Rejected}

\* the readings of Date.now(), in milliseconds
FaucetTimes == {29999, 30000, 59999, 60000, 90000}

\* the outcomes of chain.write
WriteOutcomes == {Receipt("success"), Receipt("reverted"), ErrorObject, Rejected}

FaucetCall(name, lastClaim, interval, now, later, written) ==
    [name |-> name, lastClaim |-> lastClaim, interval |-> interval,
     now |-> now, later |-> later, written |-> written]

InitFaucet ==
    /\ NoClassifier
    /\ NoBatch
    /\ NoDashboard
    /\ NoPrompts
    /\ NoChain
    /\ NoGoals
    /\ faucetCall = <<>>
    /\ faucetResult = <<>>
    /\ chainWrites = <<>>
    /\ faucetCalls = 0
    /\ pc = "faucet"

\* the writes of a handler reach the chain, each under the number of its call
Sent(writes) ==
    chainWrites \o [i \in DOMAIN writes |-> [call |-> faucetCalls + 1, entrypoint |-> writes[i]]]

ClaimFaucet ==
    /\ pc = "faucet"
    /\ faucetCalls < MaxFaucetCalls
    /\ \E lastClaim \in LastClaimReads, interval \in IntervalReads,
          now \in FaucetTimes, written \in WriteOutcomes :
            \E later \in {t \in FaucetTimes : t >= now} :
                LET done == claimFaucet(lastClaim, interval, now, later, written)
                IN  /\ faucetCall' = FaucetCall("claimFaucet", lastClaim, interval, now, later,
                                                IF done.writes = <<>> THEN ErrorObject ELSE written)
                    /\ faucetResult' = done.returned
                    /\ chainWrites' = Sent(done.writes)
    /\ faucetCalls' = faucetCalls + 1
    /\ UNCHANGED <<classifierVars, pc, batchVars, dashVars, promptVars, chainVars, goalVars>>

GetClaimTimeStatus ==
    /\ pc = "faucet"
    /\ faucetCalls < MaxFaucetCalls
    /\ \E lastClaim \in LastClaimReads, interval \in IntervalReads, now \in FaucetTimes :
            \E later \in {t \in FaucetTimes : t >= now} :
                LET done == getClaimTimeStatus(lastClaim, interval, now, later)
                IN  /\ faucetCall' = FaucetCall("getClaimTimeStatus", lastClaim, interval,
                                                now, later, ErrorObject)
                    /\ faucetResult' = done.returned
                    /\ chainWrites' = Sent(done.writes)
    /\ faucetCalls' = faucetCalls + 1
    /\ UNCHANGED <<classifierVars, pc, batchVars, dashVars, promptVars, chainVars, goalVars>>

NextFaucet == ClaimFaucet \/ GetClaimTimeStatus

SpecFaucet == InitFaucet /\ [][NextFaucet]_vars

---------------------------------------------------------------------------

(* Properties.                                                             *)

\* the default the call runs with: 0n when the argument is omitted
EffectiveDefault == IF defaultValue.given THEN defaultValue.val ELSE BigZero

\* a well-formed non-negative integer: one decimal digit or more
WellFormedInteger(v) ==
    v.kind = "string" /\ v.chars # <<>> /\ \A i \in DOMAIN v.chars : v.chars[i] \in DecimalDigits

\* the characters an integer literal of ECMAScript can hold
LiteralChars ==
    DecimalDigits \cup {"a", "b", "c", "d", "e", "f", "A", "B", "C", "D", "E", "F",
                        "x", "X", "o", "O", "+", "-", " "}

\* text that is no integer whatever the notation: it holds a character that
\* no integer literal holds
NotAnInteger(v) ==
    v.kind = "string" /\ \E i \in DOMAIN v.chars : v.chars[i] \notin LiteralChars

\* m is the decimal writing of the digits cs, leading zeros dropped
IsValueOf(m, cs) ==
    /\ m = <<>> \/ m[1] # 0
    /\ Len(m) <= Len(cs)
    /\ \A i \in 1..(Len(cs) - Len(m)) : cs[i] = "0"
    /\ \A i \in 1..Len(m) : cs[Len(cs) - Len(m) + i] \in DecimalDigits
                            /\ DigitVal(cs[Len(cs) - Len(m) + i]) = m[i]

ResourceFocusLabels ==
    {"He3 Accumulation", "Graphene Path Focus", "Yttrium Path Focus", "Carbon Stockpiling",
     "Neodymium Stockpiling", "Balanced Resource Approach", "Unknown", "Analysis Error"}

PathPreferenceLabels ==
    {"Strong Graphene Path Preference", "Moderate Graphene Path Preference",
     "Strong Yttrium Path Preference", "Moderate Yttrium Path Preference",
     "Balanced Path Approach", "Analysis Error"}

LiquidityStrategyLabels ==
    {"Advanced Resource Liquidity Focus", "Intermediate Resource Liquidity Focus",
     "Base Resource Liquidity Focus", "No Liquidity Positions",
     "Diversified Liquidity Strategy", "Analysis Error"}

StakingStrategyLabels ==
    {"He3 Single Stake Focus", "Advanced Resource Staking Focus",
     "Intermediate Resource Staking Focus", "Base Resource Staking Focus",
     "No Staking Positions", "Diversified Staking Strategy", "Analysis Error"}

EarlyMidLabels ==
    {"Mid Game - Dual Path Production", "Mid Game - Graphene Path Focus",
     "Mid Game - Yttrium Path Focus", "Early Game - Resource Conversion Setup",
     "Early Game - Resource Accumulation"}

OverallStrategyLabels ==
    EarlyMidLabels \cup {"End Game - Final He3 Accumulation", "Late Game - He3 Acceleration",
                         "Analysis Error"}

\* the mapping is a mapping and each position list is an array or is missing
WellFormed(i) ==
    /\ i.resourceBalances.kind = "object"
    /\ i.liquidityPositions.kind \in {"array", "undefined"}
    /\ i.stakePositions.kind \in {"array", "undefined"}

\* C2: every label of the analysis is a member of its label set, and for a
\* well-formed input no label is "Analysis Error".
C2_LabelSets ==
    pc = "analyzed" =>
        /\ analysis.resourceFocus \in ResourceFocusLabels
        /\ analysis.pathPreference \in PathPreferenceLabels
        /\ analysis.liquidityStrategy \in LiquidityStrategyLabels
        /\ analysis.stakingStrategy \in StakingStrategyLabels
        /\ analysis.overallStrategy \in OverallStrategyLabels
        /\ WellFormed(intel) =>
               /\ analysis.resourceFocus # "Analysis Error"
               /\ analysis.pathPreference # "Analysis Error"
               /\ analysis.liquidityStrategy # "Analysis Error"
               /\ analysis.stakingStrategy # "Analysis Error"
               /\ analysis.overallStrategy # "Analysis Error"

\* C2 witness: a missing mapping gives the error label to the analyses that
\* read it, while the staking analysis still gives a label of its own
C2_Witness ==
    /\ pc = "analyzed"
    /\ intel.resourceBalances = NullBalances
    /\ analysis.resourceFocus = "Analysis Error"
    /\ analysis.overallStrategy = "Analysis Error"
    /\ analysis.stakingStrategy = "No Staking Positions"

\* a balance the chain reports: a decimal text
DecimalText(v) == WellFormedInteger(v)

\* the number a decimal text writes
ValueOfText(v) == Big(FALSE, StripZeros([i \in DOMAIN v.chars |-> DigitVal(v.chars[i])]))

\* the mapping holds a decimal text with a digit other than 0 for the name
Positive(rb, name) ==
    \E i \in DOMAIN rb.entries :
        /\ rb.entries[i].key = name
        /\ DecimalText(rb.entries[i].value)
        /\ \E j \in DOMAIN rb.entries[i].value.chars : rb.entries[i].value.chars[j] # "0"

HasLiquidityPosition(i) ==
    i.liquidityPositions.kind = "array" /\ i.liquidityPositions.items # <<>>

\* C3: determineOverallStrategy takes the first stage rule that matches:
\* he3 > endGameThreshold, he3 > lateGameThreshold, graphene and yttrium held,
\* graphene held, yttrium held, a liquidity position held, none of these; a
\* balance equal to a threshold does not pass it.
C3_StageRules ==
    (pc = "analyzed" /\ intel.resourceBalances.kind = "object" /\ DecimalText(intel.he3Balance)) =>
        LET h == ValueOfText(intel.he3Balance)
            end == BigGT(h, endGameThreshold)
            late == BigGT(h, lateGameThreshold)
            g == Positive(intel.resourceBalances, "graphene")
            y == Positive(intel.resourceBalances, "yttrium")
            lp == HasLiquidityPosition(intel)
            label == analysis.overallStrategy
        IN  /\ end => label = "End Game - Final He3 Accumulation"
            /\ (~end /\ late) => label = "Late Game - He3 Acceleration"
            /\ (~end /\ ~late /\ g /\ y) => label = "Mid Game - Dual Path Production"
            /\ (~end /\ ~late /\ g /\ ~y) => label = "Mid Game - Graphene Path Focus"
            /\ (~end /\ ~late /\ ~g /\ y) => label = "Mid Game - Yttrium Path Focus"
            /\ (~end /\ ~late /\ ~g /\ ~y /\ lp) => label = "Early Game - Resource Conversion Setup"
            /\ (~end /\ ~late /\ ~g /\ ~y /\ ~lp) => label = "Early Game - Resource Accumulation"
            /\ intel.he3Balance = Str(EndGameText) => label = "Late Game - He3 Acceleration"
            /\ intel.he3Balance = Str(LateGameText) =>
                   label \notin {"End Game - Final He3 Accumulation", "Late Game - He3 Acceleration"}

\* C3 witness: a balance equal to endGameThreshold with graphene, yttrium and
\* a liquidity position held is in the late game
C3_Witness ==
    /\ pc = "analyzed"
    /\ intel.he3Balance = Str(EndGameText)
    /\ Positive(intel.resourceBalances, "graphene")
    /\ Positive(intel.resourceBalances, "yttrium")
    /\ HasLiquidityPosition(intel)
    /\ analysis.overallStrategy = "Late Game - He3 Acceleration"

\* Early and mid game < late game < end game
StageRank(label) ==
    CASE label = "End Game - Final He3 Accumulation" -> 2
      [] label = "Late Game - He3 Acceleration" -> 1
      [] OTHER -> 0

\* C4: with the mapping and the positions held fixed, a balance that is no
\* smaller never gives an earlier stage.
C4_StageMonotonic ==
    (pc = "analyzed" /\ WellFormed(intel) /\ DecimalText(intel.he3Balance)) =>
        \A b2 \in { b \in He3Balances : DecimalText(b) } :
            ~BigGT(ValueOfText(intel.he3Balance), ValueOfText(b2)) =>
                StageRank(determineOverallStrategy(intel.resourceBalances,
                                                   intel.liquidityPositions,
                                                   intel.stakePositions, b2))
                    >= StageRank(analysis.overallStrategy)

\* C4 witness: a late-game balance, which a greater balance of the inputs
\* takes to the end game and a smaller one leaves in the mid game
C4_Witness ==
    /\ pc = "analyzed"
    /\ WellFormed(intel)
    /\ intel.he3Balance = Str(LateGamePlusOne)
    /\ analysis.overallStrategy = "Late Game - He3 Acceleration"
    /\ determineOverallStrategy(intel.resourceBalances, intel.liquidityPositions,
                                intel.stakePositions, Str(EndGamePlusOne))
           = "End Game - Final He3 Accumulation"
    /\ determineOverallStrategy(intel.resourceBalances, intel.liquidityPositions,
                                intel.stakePositions, Str(LateGameText))
           = "Mid Game - Graphene Path Focus"

\* the resource has an entry that is no "Error" and converts to a number
\* other than zero
Held(rb, name) ==
    \E i \in DOMAIN rb.entries :
        /\ rb.entries[i].key = name
        /\ rb.entries[i].value # ErrorStr
        /\ safeBigInt(rb.entries[i].value) # BigZero

\* the identities of the contracts the file configures under the keys
ConfiguredIds(category, keys) ==
    { contractAddresses[category][k].id : k \in keys \cap DOMAIN contractAddresses[category] }

ItemsOf(p) == IF p.kind = "array" THEN p.items ELSE <<>>

\* +1 for a held resource of the path, +2 for a liquidity position on a pair
\* of the path, +3 for a stake position on a reactor of the path
ClaimedScore(i, resources, pairs, reactors) ==
    Cardinality({ r \in resources : Held(i.resourceBalances, r) })
    + 2 * Cardinality({ n \in DOMAIN ItemsOf(i.liquidityPositions) :
            ItemsOf(i.liquidityPositions)[n].pairAddress.id \in ConfiguredIds("lpPairs", pairs) })
    + 3 * Cardinality({ n \in DOMAIN ItemsOf(i.stakePositions) :
            ItemsOf(i.stakePositions)[n].reactorAddress.id \in ConfiguredIds("reactors", reactors) })

ClaimedGrapheneScore(i) ==
    ClaimedScore(i, {"carbon", "graphite", "graphene"}, {"carbon", "graphite", "graphene"},
                 {"grp", "gph"})

ClaimedYttriumScore(i) ==
    ClaimedScore(i, {"neodymium", "dysprosium", "yttrium"},
                 {"neodymium", "dysprosium", "yttrium"}, {"dy", "y"})

\* the record without its wattDollar and helium3 balances
WithoutNeutral(i) ==
    [i EXCEPT !.resourceBalances.entries =
        SelectSeq(i.resourceBalances.entries, LAMBDA e : e.key \notin {"wattDollar", "helium3"})]

\* C5: each path's score is +1 for every resource of the path held with a
\* balance that is not zero and not an error, +2 for every liquidity position
\* on a pair of the path and +3 for every stake position on a reactor of the
\* path; wattDollar and helium3 add to neither score.
C5_PathScores ==
    (pc = "analyzed" /\ WellFormed(intel)) =>
        LET rb == intel.resourceBalances
            lp == intel.liquidityPositions
            sp == intel.stakePositions
            n == WithoutNeutral(intel)
        IN  /\ graphenePathScore(rb, lp, sp) = ClaimedGrapheneScore(intel)
            /\ yttriumPathScore(rb, lp, sp) = ClaimedYttriumScore(intel)
            /\ graphenePathScore(n.resourceBalances, lp, sp) = graphenePathScore(rb, lp, sp)
            /\ yttriumPathScore(n.resourceBalances, lp, sp) = yttriumPathScore(rb, lp, sp)
            /\ analysis.pathPreference
                   = PathPreferenceLabel(ClaimedGrapheneScore(intel), ClaimedYttriumScore(intel))

\* C5 witness: a graphene balance, a position on the carbon pair and a stake
\* on the dy reactor: 1 + 2 against 3
C5_Witness ==
    /\ pc = "analyzed"
    /\ WellFormed(intel)
    /\ Held(intel.resourceBalances, "graphene")
    /\ ItemsOf(intel.liquidityPositions) = <<LiquidityPosition(Address(1, FALSE))>>
    /\ ItemsOf(intel.stakePositions) = <<StakePosition(Address(13, FALSE))>>
    /\ graphenePathScore(intel.resourceBalances, intel.liquidityPositions, intel.stakePositions) = 3
    /\ yttriumPathScore(intel.resourceBalances, intel.liquidityPositions, intel.stakePositions) = 3
    /\ analysis.pathPreference = "Balanced Path Approach"

\* C6: the label is Strong Graphene iff g > 2y, Moderate Graphene iff
\* y < g <= 2y, Strong Yttrium iff y > 2g, Moderate Yttrium iff g < y <= 2g,
\* and Balanced iff g = y, for the path scores g and y.
C6_PathDecision ==
    (pc = "analyzed" /\ WellFormed(intel)) =>
        LET g == graphenePathScore(intel.resourceBalances, intel.liquidityPositions,
                                   intel.stakePositions)
            y == yttriumPathScore(intel.resourceBalances, intel.liquidityPositions,
                                  intel.stakePositions)
            label == analysis.pathPreference
        IN  /\ label = "Strong Graphene Path Preference" <=> g > 2 * y
            /\ label = "Moderate Graphene Path Preference" <=> (y < g /\ g <= 2 * y)
            /\ label = "Strong Yttrium Path Preference" <=> y > 2 * g
            /\ label = "Moderate Yttrium Path Preference" <=> (g < y /\ y <= 2 * g)
            /\ label = "Balanced Path Approach" <=> g = y
            /\ (g = 6 /\ y = 2) => label = "Strong Graphene Path Preference"
            /\ (g = 3 /\ y = 2) => label = "Moderate Graphene Path Preference"
            /\ (g = 0 /\ y = 0) => label = "Balanced Path Approach"

\* C6 witness: scores 6 and 2 give the strong Graphene preference
C6_Witness ==
    /\ pc = "analyzed"
    /\ WellFormed(intel)
    /\ graphenePathScore(intel.resourceBalances, intel.liquidityPositions, intel.stakePositions) = 6
    /\ yttriumPathScore(intel.resourceBalances, intel.liquidityPositions, intel.stakePositions) = 2
    /\ analysis.pathPreference = "Strong Graphene Path Preference"

\* the entries that are no "Error"
NonErrorEntries(rb) == { i \in DOMAIN rb.entries : rb.entries[i].value # ErrorStr }

\* the entries whose balance no other non-error entry exceeds
GreatestEntries(rb) ==
    { i \in NonErrorEntries(rb) :
        \A j \in NonErrorEntries(rb) :
            ~BigGT(safeBigInt(rb.entries[j].value), safeBigInt(rb.entries[i].value)) }

\* the label the claim gives for a top resource; it gives none for helium3
\* with no balance
FocusLabelFits(entry, label) ==
    CASE entry.key = "helium3" ->
             BigGT(safeBigInt(entry.value), BigZero) => label = "He3 Accumulation"
      [] entry.key = "graphene" -> label = "Graphene Path Focus"
      [] entry.key = "yttrium" -> label = "Yttrium Path Focus"
      [] entry.key = "carbon" -> label = "Carbon Stockpiling"
      [] entry.key = "neodymium" -> label = "Neodymium Stockpiling"
      [] OTHER -> label = "Balanced Resource Approach"

\* C7: the resource focus is the label of a resource whose balance is the
\* greatest among the entries that are no "Error": He3 Accumulation for
\* helium3 above zero, the path focus for graphene and yttrium, stockpiling
\* for carbon and neodymium, the balanced approach for the others; an "Error"
\* entry is never the top resource.
C7_ResourceFocus ==
    (pc = "analyzed" /\ intel.resourceBalances.kind = "object") =>
        LET rb == intel.resourceBalances IN
        /\ NonErrorEntries(rb) # {} =>
               \E i \in GreatestEntries(rb) : FocusLabelFits(rb.entries[i], analysis.resourceFocus)
        /\ NonErrorEntries(rb) = {} => analysis.resourceFocus = "Unknown"

\* C7 witness: carbon entered first with 5, graphene second with 9
C7_Witness ==
    /\ pc = "analyzed"
    /\ intel.resourceBalances
           = Balances(<<Entry("carbon", Str(<<"5">>)), Entry("graphene", Str(<<"9">>))>>)
    /\ analysis.resourceFocus = "Graphene Path Focus"

\* C8 as claimed: "Unknown" whenever no resource has a positive balance
C8_UnknownWithoutPositive ==
    (pc = "analyzed" /\ intel.resourceBalances.kind = "object") =>
        ((\A n \in ResourceNames : ~Positive(intel.resourceBalances, n))
            => analysis.resourceFocus = "Unknown")

\* the entry lists that hold the entries of es in another order
Reorderings(es) ==
    { [i \in DOMAIN es |-> es[p[i]]] :
        p \in { q \in [DOMAIN es -> DOMAIN es] : \A i, j \in DOMAIN es : i # j => q[i] # q[j] } }

\* C9 as claimed: the resource focus is the same for every insertion order of
\* the same entries
C9_OrderIndependent ==
    (pc = "analyzed" /\ intel.resourceBalances.kind = "object") =>
        \A es \in Reorderings(intel.resourceBalances.entries) :
            analyzeResourceFocus(Balances(es)) = analysis.resourceFocus

\* the positions of the list on a pair configured under one of the keys
PositionsOn(i, keys) ==
    Cardinality({ n \in DOMAIN ItemsOf(i.liquidityPositions) :
        ItemsOf(i.liquidityPositions)[n].pairAddress.id \in ConfiguredIds("lpPairs", keys) })

\* C10: an empty or missing position list gives "No Liquidity Positions";
\* otherwise, with b, i, a the positions on base, intermediate and advanced
\* pairs, a > i and a > b gives the advanced focus, else i > b the
\* intermediate focus, else b > 0 the base focus.
C10_LiquidityStrategy ==
    (pc = "analyzed" /\ intel.liquidityPositions.kind \in {"array", "undefined"}) =>
        LET b == PositionsOn(intel, {"carbon", "neodymium"})
            i == PositionsOn(intel, {"graphite", "dysprosium"})
            a == PositionsOn(intel, {"graphene", "yttrium", "helium3"})
            label == analysis.liquidityStrategy
        IN  IF ItemsOf(intel.liquidityPositions) = <<>>
            THEN label = "No Liquidity Positions"
            ELSE /\ (a > i /\ a > b) => label = "Advanced Resource Liquidity Focus"
                 /\ (~(a > i /\ a > b) /\ i > b) => label = "Intermediate Resource Liquidity Focus"
                 /\ (~(a > i /\ a > b) /\ ~(i > b) /\ b > 0)
                        => label = "Base Resource Liquidity Focus"

\* C10 witness: two positions on advanced pairs and one on a base pair
C10_Witness ==
    /\ pc = "analyzed"
    /\ Len(ItemsOf(intel.liquidityPositions)) = 3
    /\ PositionsOn(intel, {"graphene", "yttrium", "helium3"}) = 2
    /\ PositionsOn(intel, {"carbon", "neodymium"}) = 1
    /\ analysis.liquidityStrategy = "Advanced Resource Liquidity Focus"

\* the stake positions of the list on a reactor configured under one of the keys
StakesOn(i, keys) ==
    Cardinality({ n \in DOMAIN ItemsOf(i.stakePositions) :
        ItemsOf(i.stakePositions)[n].reactorAddress.id \in ConfiguredIds("reactors", keys) })

\* two tiers or more share the greatest of the three counts
TieAtTop(b, i, a) ==
    \/ (b = i /\ b >= a)
    \/ (b = a /\ b >= i)
    \/ (i = a /\ i >= b)

\* C11 as claimed: a non-empty list in which two tiers or more tie for the
\* greatest count gives "Diversified Liquidity Strategy", and, with no
\* single-sided stake, "Diversified Staking Strategy"
C11_TieIsDiversified ==
    pc = "analyzed" =>
        /\ (ItemsOf(intel.liquidityPositions) # <<>>
                /\ TieAtTop(PositionsOn(intel, {"carbon", "neodymium"}),
                            PositionsOn(intel, {"graphite", "dysprosium"}),
                            PositionsOn(intel, {"graphene", "yttrium", "helium3"})))
               => analysis.liquidityStrategy = "Diversified Liquidity Strategy"
        /\ (ItemsOf(intel.stakePositions) # <<>>
                /\ StakesOn(intel, {"he3Stake"}) = 0
                /\ TieAtTop(StakesOn(intel, {"grp", "dy"}), StakesOn(intel, {"gph", "y"}),
                            StakesOn(intel, {"he3"})))
               => analysis.stakingStrategy = "Diversified Staking Strategy"

\* C12: a stake position on the he3Stake reactor anywhere in the list gives
\* "He3 Single Stake Focus", whatever the other positions of the list.
C12_SingleStakeOverrides ==
    (pc = "analyzed" /\ intel.stakePositions.kind = "array") =>
        (StakesOn(intel, {"he3Stake"}) > 0
            => analysis.stakingStrategy = "He3 Single Stake Focus")

\* C12 witness: two stakes on the he3 reactor, then one on he3Stake
C12_Witness ==
    /\ pc = "analyzed"
    /\ intel.stakePositions.kind = "array"
    /\ Len(intel.stakePositions.items) = 3
    /\ StakesOn(intel, {"he3"}) = 2
    /\ intel.stakePositions.items[3].reactorAddress.id = contractAddresses.reactors["he3Stake"].id
    /\ analysis.stakingStrategy = "He3 Single Stake Focus"

\* the suggestions a path preference asks for
PathSuggestions(label) ==
    CASE label \in {"Strong Graphene Path Preference", "Moderate Graphene Path Preference"} ->
             << "Focus on Yttrium path to avoid competition",
                "Secure Neodymium and Dysprosium resources" >>
      [] label \in {"Strong Yttrium Path Preference", "Moderate Yttrium Path Preference"} ->
             << "Focus on Graphene path to avoid competition",
                "Secure Carbon and Graphite resources" >>
      [] label = "Balanced Path Approach" -> << "Specialize in one path for efficiency" >>
      [] OTHER -> << >>

\* the suggestion a liquidity strategy asks for, if any
LiquiditySuggestions(label) ==
    CASE label = "Base Resource Liquidity Focus" ->
             << "Focus on intermediate and advanced resource liquidity" >>
      [] label = "Advanced Resource Liquidity Focus" ->
             << "Ensure base resource supply chain is secure" >>
      [] OTHER -> << >>

\* C13: the counter strategies are, in the end game, the two end-game
\* suggestions; in the late game, the two late-game suggestions; otherwise the
\* suggestions of the path preference followed by at most one suggestion of
\* the liquidity strategy.
C13_CounterStrategies ==
    (pc = "analyzed" /\ WellFormed(intel) /\ DecimalText(intel.he3Balance)) =>
        LET h == ValueOfText(intel.he3Balance)
            list == analysis.counterStrategies
        IN  IF BigGT(h, endGameThreshold)
                THEN list = << "Accelerate He3 production to catch up",
                               "Focus exclusively on He3 single staking" >>
            ELSE IF BigGT(h, lateGameThreshold)
                THEN list = << "Optimize He3 production path",
                               "Balance between He3 single staking and GPH-Y liquidity" >>
            ELSE /\ list = PathSuggestions(analysis.pathPreference)
                               \o LiquiditySuggestions(analysis.liquidityStrategy)
                 /\ Len(PathSuggestions(analysis.pathPreference)) \in {1, 2}
                 /\ Len(list) - Len(PathSuggestions(analysis.pathPreference)) \in {0, 1}

\* C13 witness: a Graphene preference and a base-tier focus give the two
\* Yttrium suggestions and then the liquidity suggestion
C13_Witness ==
    /\ pc = "analyzed"
    /\ WellFormed(intel)
    /\ analysis.pathPreference = "Strong Graphene Path Preference"
    /\ analysis.liquidityStrategy = "Base Resource Liquidity Focus"
    /\ analysis.counterStrategies
           = << "Focus on Yttrium path to avoid competition",
                "Secure Neodymium and Dysprosium resources",
                "Focus on intermediate and advanced resource liquidity" >>

\* the record of the end-to-end scenario: graphene 5, yttrium 0, he3 0, one
\* liquidity position on a pair of the Graphene path only, no stake position
EndToEndScenario(i) ==
    /\ i.he3Balance = Str(<<"0">>)
    /\ i.resourceBalances
           = Balances(<<Entry("graphene", Str(<<"5">>)), Entry("yttrium", Str(<<"0">>))>>)
    /\ i.liquidityPositions.kind = "array"
    /\ Len(i.liquidityPositions.items) = 1
    /\ i.liquidityPositions.items[1].pairAddress.id
           \in ConfiguredIds("lpPairs", graphenePathPairs) \ ConfiguredIds("lpPairs", yttriumPathPairs)
    /\ ItemsOf(i.stakePositions) = <<>>
    /\ i.stakePositions.kind \in {"array", "undefined"}

\* C19: in the end-to-end scenario the analysis has the Graphene path focus,
\* the strong Graphene preference of score 3 against 0, the liquidity focus of
\* the tier of the one position, no staking positions and the mid-game
\* Graphene stage.
C19_EndToEnd ==
    (pc = "analyzed" /\ EndToEndScenario(intel)) =>
        /\ analysis.resourceFocus = "Graphene Path Focus"
        /\ graphenePathScore(intel.resourceBalances, intel.liquidityPositions,
                             intel.stakePositions) = 3
        /\ yttriumPathScore(intel.resourceBalances, intel.liquidityPositions,
                            intel.stakePositions) = 0
        /\ analysis.pathPreference = "Strong Graphene Path Preference"
        /\ PositionsOn(intel, {"carbon", "neodymium"}) = 1
               => analysis.liquidityStrategy = "Base Resource Liquidity Focus"
        /\ PositionsOn(intel, {"graphite", "dysprosium"}) = 1
               => analysis.liquidityStrategy = "Intermediate Resource Liquidity Focus"
        /\ analysis.stakingStrategy = "No Staking Positions"
        /\ analysis.overallStrategy = "Mid Game - Graphene Path Focus"

\* C19 witness: the scenario with the position on the graphite pair
C19_Witness ==
    /\ pc = "analyzed"
    /\ EndToEndScenario(intel)
    /\ PositionsOn(intel, {"graphite", "dysprosium"}) = 1
    /\ analysis.liquidityStrategy = "Intermediate Resource Liquidity Focus"
    /\ analysis.overallStrategy = "Mid Game - Graphene Path Focus"

\* the sub-analysis of the field throws inside its try on the record: it
\* reads an input that is malformed
SubAnalysisFails(i, field) ==
    CASE field = "resourceFocus" -> i.resourceBalances.kind # "object"
      [] field = "pathPreference" ->
             \/ i.resourceBalances.kind # "object"
             \/ i.liquidityPositions.kind = "object"
             \/ i.stakePositions.kind = "object"
      [] field = "liquidityStrategy" -> i.liquidityPositions.kind = "object"
      [] field = "stakingStrategy" -> i.stakePositions.kind = "object"
      [] field = "overallStrategy" ->
             /\ i.resourceBalances.kind # "object"
             /\ ~BigGT(safeBigInt(i.he3Balance), lateGameThreshold)

\* the record with every malformed input replaced by an empty one
Repaired(i) ==
    [i EXCEPT !.resourceBalances = IF @.kind = "object" THEN @ ELSE Balances(<<>>),
              !.liquidityPositions = IF @.kind = "object" THEN Positions(<<>>) ELSE @,
              !.stakePositions = IF @.kind = "object" THEN Positions(<<>>) ELSE @]

LabelFields ==
    {"resourceFocus", "pathPreference", "liquidityStrategy", "stakingStrategy",
     "overallStrategy"}

\* the entries of the result for the agent
EntriesOf(result, agentId) ==
    { n \in DOMAIN result.records : result.records[n].agentId = agentId }

SoundConfiguration ==
    /\ \E n \in DOMAIN agentAddresses : agentAddresses[n] = currentAgentId
    /\ \E n \in DOMAIN resourceAddresses : resourceAddresses[n] = "helium3"

\* the agents other than the current one, in the order of the mapping
Competitors == SelectSeq(agentAddresses, LAMBDA a : a # currentAgentId)

\* a fetch made at the scope of the agent fails: the he3 balance or a
\* position list
AgentFetchFails(a) ==
    ~network[a].he3.ok \/ ~network[a].liquidity.ok \/ ~network[a].stakes.ok

NoFetchFails(a) ==
    /\ ~AgentFetchFails(a)
    /\ \A r \in DOMAIN network[a].balance : network[a].balance[r].ok

\* every fetch answers
AllReachable ==
    [a \in DOMAIN network |->
        [he3 |-> Outcome(TRUE, network[a].he3.val),
         balance |-> [r \in DOMAIN network[a].balance |->
                         Outcome(TRUE, network[a].balance[r].val)],
         liquidity |-> Outcome(TRUE, network[a].liquidity.val),
         stakes |-> Outcome(TRUE, network[a].stakes.val)]]

FailedResources(a) ==
    { r \in DOMAIN network[a].balance : ~network[a].balance[r].ok }
    \cup (IF network[a].he3.ok THEN {} ELSE {"helium3"})

\* C16 as claimed: when the balance fetches of an agent fail for one resource
\* only, helium3 or another, and its position fetches answer, the agent's
\* record has no error, holds "Error" for that resource, the fetched balance
\* for every other resource, and the fetched positions
C16_ResourceFailureCaught ==
    (pc = "gathered" /\ SoundConfiguration) =>
        \A n \in DOMAIN Competitors :
            LET a == Competitors[n]
                rec == competitiveIntelligence.records[n]
            IN  \A r \in DOMAIN network[a].balance :
                    (/\ FailedResources(a) = {r}
                     /\ network[a].liquidity.ok
                     /\ network[a].stakes.ok) =>
                        /\ Falsy(rec.error)
                        /\ Lookup(rec.resourceBalances, r) = ErrorStr
                        /\ \A q \in DOMAIN network[a].balance \ {r} :
                              Lookup(rec.resourceBalances, q)
                                  = BigToString(network[a].balance[q].val)
                        /\ rec.liquidityPositions = network[a].liquidity.val
                        /\ rec.stakePositions = network[a].stakes.val

\* the resources of which the balance fetch in the loop over the resources
\* fails for the agent
FailedInLoop(a) == { r \in DOMAIN network[a].balance : ~network[a].balance[r].ok }

\* C16, amended: when for an agent the fetch in the loop over the resources
\* fails for one resource only, helium3 or another, and the he3 balance
\* fetch before the loop and the position fetches answer, the agent's record
\* has no error, holds "Error" for that resource, the fetched balance for
\* every other resource, the he3 balance and the fetched positions; when the
\* he3 balance fetch before the loop fails, the record is the one with the
\* error.
C16_LoopFailureCaught ==
    (pc = "gathered" /\ SoundConfiguration) =>
        \A n \in DOMAIN Competitors :
            LET a == Competitors[n]
                rec == competitiveIntelligence.records[n]
            IN  /\ \A r \in DOMAIN network[a].balance :
                      (/\ FailedInLoop(a) = {r}
                       /\ network[a].he3.ok
                       /\ network[a].liquidity.ok
                       /\ network[a].stakes.ok) =>
                          /\ Falsy(rec.error)
                          /\ Lookup(rec.resourceBalances, r) = ErrorStr
                          /\ \A q \in DOMAIN network[a].balance \ {r} :
                                Lookup(rec.resourceBalances, q)
                                    = BigToString(network[a].balance[q].val)
                          /\ Len(rec.resourceBalances.entries) = Len(resourceAddresses)
                          /\ rec.he3Balance = BigToString(network[a].he3.val)
                          /\ rec.liquidityPositions = network[a].liquidity.val
                          /\ rec.stakePositions = network[a].stakes.val
                /\ ~network[a].he3.ok =>
                      /\ ~Falsy(rec.error)
                      /\ rec.resourceBalances = Balances(<<>>)

\* C16 witness: for agent2 the helium3 fetch of the loop fails after the he3
\* balance fetch has answered
C16_Witness ==
    /\ pc = "gathered"
    /\ currentAgentId = "agent1"
    /\ resourceAddresses = <<"carbon", "graphene", "helium3">>
    /\ network["agent2"].he3.ok
    /\ FailedInLoop("agent2") = {"helium3"}
    /\ competitiveIntelligence.records[1].agentId = "agent2"
    /\ Falsy(competitiveIntelligence.records[1].error)
    /\ competitiveIntelligence.records[1].he3Balance = BigToString(TwoTo53Plus1)
    /\ Lookup(competitiveIntelligence.records[1].resourceBalances, "helium3") = ErrorStr
    /\ Lookup(competitiveIntelligence.records[1].resourceBalances, "graphene") = Str(<<"5">>)
    /\ competitiveIntelligence.records[1].stakePositions = IndexerStakes("agent2")

\* the agents of the ranking, in its order
RankedIds == [n \in DOMAIN ranking.records |-> ranking.records[n].agentId]

\* C17: rankAgentsByHe3 returns the agents whose fetch succeeded, each once,
\* with the balance fetched, in descending order of balance as integers of
\* any size; the agents whose fetch failed are absent, so that as many agents
\* are missing as the mapping has agents beyond the length of the result;
\* 100, a failure and 50 give the first and the third agent.
C17_Ranking ==
    (pc = "ranked" /\ \E n \in DOMAIN resourceAddresses : resourceAddresses[n] = "helium3") =>
        /\ ~ranking.raised
        /\ { RankedIds[n] : n \in DOMAIN RankedIds }
               = { a \in KeySet(agentAddresses) : network[a].he3.ok }
        /\ \A i, j \in DOMAIN RankedIds : i # j => RankedIds[i] # RankedIds[j]
        /\ \A n \in DOMAIN ranking.records :
              /\ DecimalText(ranking.records[n].he3Balance)
              /\ ValueOfText(ranking.records[n].he3Balance) = network[RankedIds[n]].he3.val
        /\ \A i, j \in DOMAIN RankedIds :
              i < j => ~BigGT(network[RankedIds[j]].he3.val, network[RankedIds[i]].he3.val)
        /\ Len(agentAddresses) - Len(ranking.records)
               = Cardinality({ a \in KeySet(agentAddresses) : ~network[a].he3.ok })
        /\ (/\ network["agent1"].he3 = Outcome(TRUE, Big(FALSE, <<1, 0, 0>>))
            /\ ~network["agent2"].he3.ok
            /\ network["agent3"].he3 = Outcome(TRUE, Big(FALSE, <<5, 0>>)))
               => RankedIds = <<"agent1", "agent3">>

\* C17 witness: 2^53, 2^53 + 1 and a failed fetch: the second agent is first
C17_Witness ==
    /\ pc = "ranked"
    /\ network["agent1"].he3 = Outcome(TRUE, TwoTo53)
    /\ network["agent2"].he3 = Outcome(TRUE, TwoTo53Plus1)
    /\ ~network["agent3"].he3.ok
    /\ ~ranking.raised
    /\ RankedIds = <<"agent2", "agent1">>

\* C18: when the category resources has no helium3 address,
\* getCompetitiveIntelligence and rankAgentsByHe3 raise an error, having
\* started no fetch, and return no record.
C18_MisconfigurationIsFatal ==
    (\A n \in DOMAIN resourceAddresses : resourceAddresses[n] # "helium3") =>
        /\ pc = "gathered" =>
               /\ competitiveIntelligence.raised
               /\ competitiveIntelligence.records = <<>>
               /\ competitiveIntelligence.fetches = 0
        /\ pc = "ranked" =>
               /\ ranking.raised
               /\ ranking.records = <<>>
               /\ ranking.fetches = 0

\* C18 witness: the current agent is configured, helium3 is not, and the call
\* has raised
C18_Witness ==
    /\ pc = "gathered"
    /\ currentAgentId = "agent1"
    /\ resourceAddresses = <<"carbon", "graphene">>
    /\ competitiveIntelligence.raised
    /\ competitiveIntelligence.fetches = 0


---------------------------------------------------------------------------
(* The keys of the lpPairs category.                                       *)

\* C21: with lpPairs keyed wdCarbon, wdGraphite, wdNeodymium, wdDysprosium,
\* grapheneYttrium, wdHelium3, every liquidity position on one of the six
\* configured pairs is counted in exactly one of the tiers base,
\* intermediate, advanced, and every position on the wdCarbon, wdGraphite,
\* wdNeodymium or wdDysprosium pair adds 2 to the score of its path.
C21_WdKeyedPairsClassified ==
    (/\ pc = "analyzed"
     /\ contractAddresses.lpPairs = WdKeyedPairs
     /\ intel.liquidityPositions.kind = "array") =>
        LET items == intel.liquidityPositions.items IN
        /\ CountLiquidity(items, "base") + CountLiquidity(items, "intermediate")
             + CountLiquidity(items, "advanced")
               = PositionsOn(intel, DOMAIN WdKeyedPairs)
        /\ LiquidityScore(items, graphenePathPairs)
               >= 2 * PositionsOn(intel, {"wdCarbon", "wdGraphite"})
        /\ LiquidityScore(items, yttriumPathPairs)
               >= 2 * PositionsOn(intel, {"wdNeodymium", "wdDysprosium"})


---------------------------------------------------------------------------
(* The game stage in determineOverallStrategy and suggestCounterStrategies *)

EndGameSuggestions ==
    << "Accelerate He3 production to catch up",
       "Focus exclusively on He3 single staking" >>

LateGameSuggestions ==
    << "Optimize He3 production path",
       "Balance between He3 single staking and GPH-Y liquidity" >>

\* C26: where neither function reports "Analysis Error", the overall
\* strategy is the end-game label exactly when the counter strategies are the
\* two end-game suggestions, and the late-game label exactly when they are
\* the two late-game suggestions; lateGameThreshold < endGameThreshold.
C26_StageAgreement ==
    (/\ pc = "analyzed"
     /\ analysis.overallStrategy # AnalysisError
     /\ analysis.counterStrategies # <<AnalysisError>>) =>
        /\ analysis.overallStrategy = "End Game - Final He3 Accumulation"
               <=> analysis.counterStrategies = EndGameSuggestions
        /\ analysis.overallStrategy = "Late Game - He3 Acceleration"
               <=> analysis.counterStrategies = LateGameSuggestions
        /\ BigLT(lateGameThreshold, endGameThreshold)

\* C26 witness: a balance equal to endGameThreshold is in the late game for
\* both functions, one above it in the end game for both
C26_Witness ==
    /\ pc = "analyzed"
    /\ intel.he3Balance = Str(EndGameText)
    /\ analysis.overallStrategy = "Late Game - He3 Acceleration"
    /\ analysis.counterStrategies = LateGameSuggestions
    /\ determineOverallStrategy(intel.resourceBalances, intel.liquidityPositions,
                                intel.stakePositions, Str(EndGamePlusOne))
           = "End Game - Final He3 Accumulation"
    /\ suggestCounterStrategies(intel.resourceBalances, intel.liquidityPositions,
                                intel.stakePositions, Str(EndGamePlusOne))
           = EndGameSuggestions


---------------------------------------------------------------------------
(* The keys of the result of analyzeCompetitorStrategies.                  *)

\* the agents of the records handed in
InputAgents == { competitiveIntelligence.records[i].agentId
                    : i \in DOMAIN competitiveIntelligence.records }

\* the agents of the records handed in that carry no error
AgentsWithoutError ==
    { competitiveIntelligence.records[i].agentId
        : i \in { j \in DOMAIN competitiveIntelligence.records :
                    Falsy(competitiveIntelligence.records[j].error) } }

\* the keys of the result
AnalysedAgents ==
    { strategicAnalysis.records[i].agentId : i \in DOMAIN strategicAnalysis.records }

\* C27: the keys of the result of analyzeCompetitorStrategies are the input
\* agents whose record carries no error: a record with a non-empty error
\* field gets no entry, neither a normal one nor an "Analysis Error" one, and
\* no agent absent from the input appears.
C27_KeySet ==
    (pc = "analyzedAll" /\ ~strategicAnalysis.raised) =>
        /\ AnalysedAgents = AgentsWithoutError
        /\ AnalysedAgents \subseteq InputAgents
        /\ Len(strategicAnalysis.records) = Cardinality(AnalysedAgents)
        /\ \A i \in DOMAIN competitiveIntelligence.records :
              competitiveIntelligence.records[i].error = ErrorMessage =>
                 \A j \in DOMAIN strategicAnalysis.records :
                    strategicAnalysis.records[j].agentId
                        # competitiveIntelligence.records[i].agentId

\* C27 witness: of the records gathered for two competitors one is the error
\* record of a failed fetch; the result holds the other agent only
C27_Witness ==
    /\ pc = "analyzedAll"
    /\ ~strategicAnalysis.raised
    /\ network # <<>>
    /\ ~network["agent2"].he3.ok
    /\ InputAgents = {"agent2", "agent3"}
    /\ competitiveIntelligence.records[1] = FailedIntelligence("agent2")
    /\ AnalysedAgents = {"agent3"}


---------------------------------------------------------------------------
(* The reports of an intercepted blockchain action.                        *)

\* the places in events of the reports with one of the statuses
ReportsOf(statuses) ==
    { i \in DOMAIN events : events[i].ev = "output" /\ events[i].content.status \in statuses }

\* the places in events of the start and of the end of the original handler
PlacesOf(ev) == { i \in DOMAIN events : events[i].ev = ev }

\* C22: with the dashboard enabled, the output gets "pending" before the
\* original handler starts, and after the handler has finished exactly one
\* terminal status: "success" when it returned, the result going back to the
\* caller unchanged, "failed" when it threw, the same error being thrown
\* again; no terminal status comes before "pending", and never both.
C22_ReportOrder ==
    (dashboardEnabled /\ events # <<>>) =>
        /\ ReportsOf({"pending"}) = {1}
        /\ \A s \in PlacesOf("start") : s > 1
        /\ \A t \in ReportsOf({"success", "failed"}) :
              /\ t > 1
              /\ \E e \in PlacesOf("end") : e < t
        /\ Cardinality(ReportsOf({"success", "failed"})) <= 1
        /\ pc \in {"pending", "handled"} =>
              /\ ReportsOf({"success", "failed"}) = {}
              /\ callerResult = <<>>
        /\ pc = "invoke" =>
              /\ Cardinality(PlacesOf("start")) = 1
              /\ Cardinality(ReportsOf({"success", "failed"})) = 1
              /\ ReportsOf({"success"}) # {} <=> ~handlerOutcome.threw
              /\ ReportsOf({"failed"}) # {} <=> handlerOutcome.threw
              /\ callerResult.val = handlerOutcome.val
              /\ callerResult.state = "returned" <=> ~handlerOutcome.threw
              /\ callerResult.state = "thrown" <=> handlerOutcome.threw

\* C22 witness: the handler threw; the output got pending, then the handler
\* ran, then the output got failed, and the caller got the error
C22_Witness ==
    /\ dashboardEnabled
    /\ pc = "invoke"
    /\ invocations = 2
    /\ handlerOutcome = [threw |-> TRUE, val |-> "reverted"]
    /\ Len(events) = 4
    /\ events[1].content.status = "pending"
    /\ events[2] = HandlerStart
    /\ events[3] = HandlerEnd
    /\ events[4].content.status = "failed"
    /\ events[4].content.details.error = "reverted"
    /\ callerResult = [state |-> "thrown", val |-> "reverted"]


\* the actions posted to the dashboard for the call
PostedActions == SelectSeq(posted, LAMBDA p : p.path = "actions")

\* C23: the "pending" report and the later "success" or "failed" report of
\* one action call carry the same id in the posted action.
C23_SameActionId ==
    dashboardEnabled =>
        \A i, j \in DOMAIN PostedActions : PostedActions[i].id = PostedActions[j].id


---------------------------------------------------------------------------
(* The prompt schedule.                                                    *)

\* the greatest lateness of a timer
MaxLate == CHOOSE l \in Lateness : \A k \in Lateness : k <= l

\* the places in sent of the UPDATE prompts
UpdatePlaces == { i \in DOMAIN sent : sent[i].text = "UPDATE" }

\* the time of the last UPDATE sent before the prompt at place i
LastUpdateBefore(i) ==
    sent[CHOOSE u \in UpdatePlaces : u < i /\ \A v \in UpdatePlaces : v < i => v <= u].at

\* t is d ms after s, as exactly as n timers in a row allow
After(s, t, d, n) == s + d <= t /\ t <= s + d + n * MaxLate

\* the schedule, with the first callback of the interval `gap` ms (through n
\* timers) after the first UPDATE
Schedule(gap, n) ==
    /\ sent # <<>> =>
          /\ sent[1].text = "START"
          /\ \A i \in DOMAIN sent : i > 1 => sent[i].text # "START"
    /\ Len(sent) >= 2 =>
          /\ sent[2].text = "UPDATE"
          /\ After(sent[1].at, sent[2].at, Minute, 1)
    /\ Len(sent) >= 3 => After(sent[2].at, sent[3].at, gap, n)
    /\ pc = "interval" => Len(sent) = 2 + ticks
    /\ \A i \in DOMAIN sent : i >= 3 =>
          /\ sent[i].text \in {"UPDATE", "EXECUTION"}
          /\ sent[i].text = "UPDATE" <=> sent[i].at - LastUpdateBefore(i) >= UpdateEvery
          /\ i > 3 => sent[i].at >= sent[i - 1].at + Minute
    /\ \A u, v \in UpdatePlaces : (2 < u /\ u < v) => sent[v].at - sent[u].at >= UpdateEvery

\* an UPDATE is followed by another as long as five more callbacks can run
UpdateRecurs ==
    \A n \in 1..MaxTicks :
        (Cardinality(UpdatePlaces) = n /\ ticks + 5 <= MaxTicks)
            ~> (Cardinality(UpdatePlaces) > n)

\* C24 as stated: START is sent once and first, the first UPDATE 60 s later,
\* the one-minute ticks begin 60 s after the first UPDATE, every tick sends
\* one prompt, UPDATE when at least 300000 ms have passed since the last
\* UPDATE and EXECUTION otherwise, and two UPDATE prompts after the first are
\* at least 300 s apart.
C24_TicksFromFirstUpdate == Schedule(Minute, 1)

\* C24 amended: as above, but the interval is started 60 s after the first
\* UPDATE and its first tick is 60 s after that, 120 s after the first UPDATE;
\* and UPDATE keeps recurring.
C24_PromptSchedule == [](Schedule(2 * Minute, 2)) /\ UpdateRecurs

\* C24 witness: with every timer on time the fourth tick is 300 s after the
\* first UPDATE and sends the second, and the ninth tick sends the third
C24_Witness ==
    /\ pc = "interval"
    /\ ticks = 9
    /\ UpdatePlaces = {2, 6, 11}
    /\ sent[3].at = sent[2].at + 2 * Minute
    /\ sent[6].at = sent[2].at + UpdateEvery
    /\ sent[5].text = "EXECUTION"
    /\ sent[11].at - sent[6].at = UpdateEvery


---------------------------------------------------------------------------
(* The configuration a call on the chain is made with.                     *)

\* C25: once setCurrentAgentId(id) has been called for an agent whose
\* configuration is stored, every later starknetChain.read, write and
\* executeMulticall uses that agent's rpcUrl, address and private key,
\* whatever calls were made before; the placeholder configuration with
\* address 0x0 is overridden once the agent id is set.
C25_AgentConfigUsed ==
    (/\ lastChainCall # <<>>
     /\ lastChainCall.op \in {"read", "write", "executeMulticall"}
     /\ lastChainCall.agentId # "default-agent"
     /\ lastChainCall.stored) =>
        /\ ~lastChainCall.threw
        /\ lastChainCall.config = AgentConfig(lastChainCall.agentId)



---------------------------------------------------------------------------
\* the history of the old memory is the start of the history of the new one,
\* which is longer by the given number of entries
Appended(old, new, n) ==
    /\ Len(new.history) = Len(old.history) + n
    /\ SubSeq(new.history, 1, Len(old.history)) = old.history

\* C28: from a created goal memory with an empty history, after any calls of
\* addTask, setGoalPlan, updateGoal and deleteGoal the history is as long as
\* the number of calls that succeeded: a call that succeeds appends one
\* entry and removes none, setGoalPlan with preserveHistory true or false
\* alike, and a call that returns an error appends none.
C28_HistoryCountsSuccesses ==
    /\ [](pc = "goals" => Len(agentMemory.history) = succeeded)
    /\ [][pc = "goals" =>
            Appended(agentMemory, agentMemory', IF goalResult'.error THEN 0 ELSE 1)]_vars

\* setGoalPlan without preserveHistory has succeeded on a history of two
\* entries or more, after a call that returned an error
C28_Witness ==
    /\ pc = "goals"
    /\ goalCalls > 0
    /\ goalCall.name = "setGoalPlan"
    /\ ~goalCall.data.preserveHistory
    /\ Len(agentMemory.history) >= 2
    /\ succeeded < goalCalls

\* the goals of all terms
TotalGoals(goal) == Len(goal.long_term) + Len(goal.medium_term) + Len(goal.short_term)

\* the id is that of a goal of the list
Holds(goals, id) == \E i \in DOMAIN goals : goals[i].id = id

\* the id a call of updateGoal or deleteGoal looks for
SoughtId(call) == IF call.name = "updateGoal" THEN call.data.goal.id ELSE call.data.goalId

\* the call finds no goal with its id in the terms it searches
NoMatch(goal, call) ==
    \A k \in DOMAIN SearchedTerms(call.data.term) :
        ~Holds(goal[SearchedTerms(call.data.term)[k]], SoughtId(call))

\* the place k of the searched terms and the place i in that term are those
\* of the first match
IsFirstMatch(goal, call, k, i) ==
    LET searched == SearchedTerms(call.data.term) IN
    /\ k \in DOMAIN searched
    /\ i \in DOMAIN goal[searched[k]]
    /\ goal[searched[k]][i].id = SoughtId(call)
    /\ \A j \in 1..(i - 1) : goal[searched[k]][j].id # SoughtId(call)
    /\ \A h \in 1..(k - 1) : ~Holds(goal[searched[h]], SoughtId(call))

\* the lists differ in the goal at place i alone, which is replaced or removed
OnlyChanged(old, new, i, call) ==
    IF call.name = "updateGoal"
    THEN /\ Len(new) = Len(old)
         /\ new[i] = call.data.goal
         /\ \A j \in DOMAIN old : j # i => new[j] = old[j]
    ELSE /\ Len(new) = Len(old) - 1
         /\ \A j \in DOMAIN new : new[j] = old[IF j < i THEN j ELSE j + 1]

\* C29: updateGoal and deleteGoal with an id that matches no goal of the
\* searched terms return an error and leave the goal lists, the history and
\* lastUpdated unchanged; with a matching id they change one goal, the first
\* match searching long_term, medium_term, short_term in this order or the
\* given term alone, and leave every other goal and term unchanged;
\* deleteGoal lowers the number of goals by one.
C29_FirstMatchOnly ==
    [][(pc = "goals" /\ goalCall'.name \in {"updateGoal", "deleteGoal"}) =>
        LET old == agentMemory.goal
            new == agentMemory'.goal
            searched == SearchedTerms(goalCall'.data.term)
        IN  IF NoMatch(old, goalCall')
            THEN goalResult'.error /\ agentMemory' = agentMemory
            ELSE /\ ~goalResult'.error
                 /\ \E k \in DOMAIN searched : \E i \in DOMAIN old[searched[k]] :
                        /\ IsFirstMatch(old, goalCall', k, i)
                        /\ OnlyChanged(old[searched[k]], new[searched[k]], i, goalCall')
                        /\ \A t \in {"long_term", "medium_term", "short_term"} :
                                t # searched[k] => new[t] = old[t]
                 /\ goalCall'.name = "deleteGoal" => TotalGoals(new) = TotalGoals(old) - 1]_vars

\* deleteGoal without a term has removed a goal whose id a later goal has too
C29_Witness ==
    /\ pc = "goals"
    /\ goalCalls > 0
    /\ goalCall.name = "deleteGoal"
    /\ goalCall.data.term = ""
    /\ ~goalResult.error
    /\ \E t \in {"medium_term", "short_term"} : Holds(agentMemory.goal[t], goalCall.data.goalId)



---------------------------------------------------------------------------
\* the call handled last has sent a write to the chain
Wrote == \E i \in DOMAIN chainWrites : chainWrites[i].call = faucetCalls

\* the seconds read from the faucet contract for the call handled last
ReadSeconds == ToNumber(faucetCall.lastClaim).val + ToNumber(faucetCall.interval).val

\* both reads of the call handled last gave a number
ReadNumbers ==
    /\ faucetCall.lastClaim.kind = "felts"
    /\ faucetCall.interval.kind = "felts"
    /\ ~ToNumber(faucetCall.lastClaim).nan
    /\ ~ToNumber(faucetCall.interval).nan

\* C30: claimFaucet sends the claim transaction only when the time is at or
\* past lastClaim + interval, in seconds as read from the faucet contract;
\* before that time it returns success false with the minutes left (those
\* of the time left when the clock is read again, rounded up) and writes
\* nothing to the chain; it returns success true only when the
\* status of the receipt of the transaction is 'success'.
C30_CooldownEnforced ==
    (pc = "faucet" /\ faucetCalls > 0 /\ faucetCall.name = "claimFaucet") =>
        /\ Wrote => (ReadNumbers /\ faucetCall.now >= ReadSeconds * 1000)
        /\ (ReadNumbers /\ faucetCall.now < ReadSeconds * 1000) =>
                /\ ~faucetResult.success
                /\ ~Wrote
                /\ ~faucetResult.minutesLeft.nan
                /\ (faucetResult.minutesLeft.val - 1) * 60000
                        < ReadSeconds * 1000 - faucetCall.later
                /\ ReadSeconds * 1000 - faucetCall.later <= faucetResult.minutesLeft.val * 60000
        /\ faucetResult.success =>
                (Wrote /\ faucetCall.written.kind = "receipt"
                       /\ faucetCall.written.statusReceipt = "success")
        /\ Len(chainWrites) <= faucetCalls

\* claimFaucet has refused a claim one millisecond before the time, after a
\* claim made at the time itself
C30_Witness ==
    /\ pc = "faucet"
    /\ faucetCalls = 2
    /\ faucetCall.name = "claimFaucet"
    /\ ReadNumbers
    /\ faucetCall.now = ReadSeconds * 1000 - 1
    /\ ~faucetResult.success
    /\ Len(chainWrites) = 1

===========================================================================
